---- MODULE Spec2Model ----
(***************************************************************************)
(* A model of MAPIE's classification prediction-set engine                 *)
(* (src/mapie/classification_draft.py, class MapieClassifier).             *)
(*                                                                         *)
(* Numbers.  Probabilities, conformity scores, thresholds, alpha, lambda   *)
(* and the uniform numbers are fixed-point integers in units of 1/ONE      *)
(* (ONE = 2000 stands for 1.0) and every input is an even number of units. *)
(* All arithmetic is exact; the machine epsilon of the source is positive  *)
(* and far below the resolution, so EPSILON is one unit: x <= EPSILON,     *)
(* x < EPSILON and x <= 0 then agree on the model's numbers, as they do on *)
(* floats that are exact multiples of the resolution.                      *)
(*                                                                         *)
(* Arrays.  A (n,K) probability matrix is a sequence of n rows, each a     *)
(* sequence of K numbers.  Class c (encoded label, 0-indexed as in the     *)
(* source) of a row is row[c+1].  A (n,1) array is a sequence of n         *)
(* numbers.  An attribute that does not exist on the instance is <<>>, an  *)
(* attribute holding v is <<v>>.                                           *)
(***************************************************************************)
EXTENDS Integers, Sequences, FiniteSets, TLC

ONE == 2 * 10 * 10 * 10

EPSILON == 1

\* ------------------------------------------------------------------ bounds

\* Largest number of alpha levels in one predict call.
MaxAlphas == 2

\* Largest number of fit and predict calls made on one instance.
MaxCalls == 3

\* ----------------------------------------------------------------- helpers

NoAttr == <<>>

Attr(v) == <<v>>

HasAttr(a) == Len(a) > 0

Get(a) == a[1]

Range(s) == {s[i] : i \in DOMAIN s}

Max2(a, b) == IF a >= b THEN a ELSE b

Min2(a, b) == IF a <= b THEN a ELSE b

\* A sequence as an evaluated tuple.  TLC keeps [i \in S |-> e] as an unevaluated
\* closure and evaluates e again on every application; concatenation evaluates
\* every element once.
array(s) == s \o <<>>

RECURSIVE SumSeq(_)
SumSeq(s) == IF s = <<>> THEN 0 ELSE s[1] + SumSeq(Tail(s))

\* np.cumsum along a row.
cumsum(row) == array([r \in 1..Len(row) |-> SumSeq(SubSeq(row, 1, r))])

\* np.argsort of a short row (ascending, insertion sort, hence stable): the
\* 0-indexed indices of row in ascending order of value, ties in index order.
argsort(row) ==
    array([r \in 1..Len(row) |->
              CHOOSE i \in 0..(Len(row) - 1) :
                  Cardinality({j \in 0..(Len(row) - 1) :
                      row[j + 1] < row[i + 1] \/ (row[j + 1] = row[i + 1] /\ j < i)}) = r - 1])

\* np.fliplr / np.flip(axis=1) on one row.
fliplr(row) == array([r \in 1..Len(row) |-> row[Len(row) + 1 - r]])

\* np.take_along_axis of one row with a row of 0-indexed indices.
take(row, idx) == array([r \in 1..Len(idx) |-> row[idx[r] + 1]])

\* np.argmax of one row: the 0-indexed first position of the largest value.
argmax(row) ==
    CHOOSE i \in 0..(Len(row) - 1) :
        /\ \A j \in 0..(Len(row) - 1) : row[j + 1] <= row[i + 1]
        /\ \A j \in 0..(i - 1) : row[j + 1] < row[i + 1]

\* np.unique: the sorted distinct values.
RECURSIVE SortedSeqOf(_)
SortedSeqOf(S) ==
    IF S = {} THEN <<>>
    ELSE LET m == CHOOSE x \in S : \A z \in S : x <= z
         IN  <<m>> \o SortedSeqOf(S \ {m})

unique(y) == SortedSeqOf(Range(y))

\* The values of v in ascending order (np.sort).
sort(v) == take(v, argsort(v))

\* ------------------------------------------------- random number generator

\* The i-th uniform number (0-indexed) of the generator seeded with seed: a
\* fixed function of seed and position, in [0, 1).
Stream(seed, pos) == ((seed * 7 + pos * 3) % 10) * (ONE \div 10)

\* uniform drawing from one generator that advances whatever random_state is:
\* the mutant of uniform.
uniform_shared(random_state, rng, size) ==
    [us |-> array([i \in 1..size |-> Stream(random_state.seed, rng + i - 1)]),
     rng |-> rng + size]

\* check_random_state(self.random_state) followed by uniform(size): the numbers
\* drawn and the position the shared generator is left at.  An integer seed
\* makes a fresh generator on every call; None (the process-wide generator) and
\* a RandomState instance are shared generators that advance.
uniform(random_state, rng, size) ==
    IF random_state.kind = "int"
    THEN [us |-> array([i \in 1..size |-> Stream(random_state.seed, i - 1)]), rng |-> rng]
    ELSE [us |-> array([i \in 1..size |-> Stream(random_state.seed, rng + i - 1)]),
          rng |-> rng + size]

\* ------------------------------------------------ the quantile/utility layer

\* The finite-sample-corrected rank ceil((n+1)(1-alpha)), 1-indexed, clipped to n.
QuantileRank(n, alpha) == Min2(n, ((n + 1) * (ONE - alpha) + ONE - 1) \div ONE)

\* The quantile of the rank ceil(n(1-alpha)), without the finite-sample
\* correction: the mutant of compute_quantiles.
compute_quantiles_uncorrected(vector, alpha_np) ==
    array([j \in 1..Len(alpha_np) |->
              sort(vector)[(Len(vector) * (ONE - alpha_np[j]) + ONE - 1) \div ONE]])

\* compute_quantiles on a (n,1) array: one threshold per alpha.
compute_quantiles(vector, alpha_np) ==
    LET sorted == sort(vector)
    IN  array([j \in 1..Len(alpha_np) |-> sorted[QuantileRank(Len(vector), alpha_np[j])]])

\* compute_quantiles on a (n,1,n_alpha) array: alpha j reads the slice [:, :, j].
compute_quantiles_3d(vector, alpha_np) ==
    array([j \in 1..Len(alpha_np) |->
              sort(array([i \in 1..Len(vector) |-> vector[i][j]]))[QuantileRank(Len(vector),
                                                                              alpha_np[j])]])

\* check_alpha: every alpha lies strictly between 0 and 1.
check_alpha(alpha_np) == \A j \in 1..Len(alpha_np) : 0 < alpha_np[j] /\ alpha_np[j] < ONE

\* check_alpha_and_n_samples: n >= 1/alpha for every alpha.
check_alpha_and_n_samples(alpha_np, n) == \A j \in 1..Len(alpha_np) : n * alpha_np[j] >= ONE

\* classification_mean_width_score of the sets of one alpha, times the number of
\* samples and in units of 1/ONE: the total number of included labels.
mean_width_score_n(sets) == ONE * SumSeq([i \in 1..Len(sets) |-> Cardinality(sets[i])])

\* ------------------------------------------------- the conformity score engine

\* sklearn's label_binarize for three classes or more: one-hot rows.
label_binarize(y, classes) ==
    array([i \in 1..Len(y) |->
              array([c \in 1..Len(classes) |-> IF classes[c] = y[i] THEN 1 ELSE 0])])

\* _get_true_label_position with one more flip of the order: the mutant of
\* get_true_label_position.
get_true_label_position_ascending(y_pred_proba, y) ==
    array([i \in 1..Len(y_pred_proba) |-> argsort(argsort(y_pred_proba[i]))[y[i] + 1]])

\* MapieClassifier._get_true_label_position: the position of the true label when
\* the row is sorted by decreasing probability.
get_true_label_position(y_pred_proba, y) ==
    array([i \in 1..Len(y_pred_proba) |->
              argsort(fliplr(argsort(y_pred_proba[i])))[y[i] + 1]])

\* MapieClassifier._get_true_label_cumsum_proba: per sample, the cumulated sorted
\* probability at the true label, and cutoff + 1.
get_true_label_cumsum_proba(y, y_pred_proba, classes) ==
    LET y_true == label_binarize(y, classes)
        index_sorted == array([i \in 1..Len(y_pred_proba) |-> fliplr(argsort(y_pred_proba[i]))])
        y_pred_proba_sorted_cumsum ==
            array([i \in 1..Len(y_pred_proba) |-> cumsum(take(y_pred_proba[i], index_sorted[i]))])
        cutoff == array([i \in 1..Len(y_pred_proba) |-> argmax(take(y_true[i], index_sorted[i]))])
    IN  [true_label_cumsum_proba |->
            array([i \in 1..Len(y_pred_proba) |-> y_pred_proba_sorted_cumsum[i][cutoff[i] + 1]]),
         cutoff |-> array([i \in 1..Len(y_pred_proba) |-> cutoff[i] + 1])]

\* The lac score without the complement: the mutant of lac_scores.
lac_scores_proba(y_pred_proba, y_enc) ==
    array([i \in 1..Len(y_pred_proba) |-> y_pred_proba[i][y_enc[i] + 1]])

\* fit, method "lac"/"score": take_along_axis(1 - y_pred_proba, y_enc).
lac_scores(y_pred_proba, y_enc) ==
    array([i \in 1..Len(y_pred_proba) |->
              take([c \in 1..Len(y_pred_proba[i]) |-> ONE - y_pred_proba[i][c]],
                   <<y_enc[i]>>)[1]])

\* The aps score with the randomisation added instead of subtracted: the mutant
\* of aps_scores.
aps_scores_added(y, y_enc, y_pred_proba, classes, u) ==
    LET t == get_true_label_cumsum_proba(y, y_pred_proba, classes)
    IN  [conformity_scores_ |->
            array([i \in 1..Len(y_pred_proba) |->
                      t.true_label_cumsum_proba[i]
                      + (u[i] * y_pred_proba[i][y_enc[i] + 1]) \div ONE]),
         cutoff |-> t.cutoff]

\* fit, methods "cumulated_score"/"aps"/"raps": the cumulated probability at the
\* true label minus u times the probability of the true label, and the cutoff.
aps_scores(y, y_enc, y_pred_proba, classes, u) ==
    LET t == get_true_label_cumsum_proba(y, y_pred_proba, classes)
    IN  [conformity_scores_ |->
            array([i \in 1..Len(y_pred_proba) |->
                      t.true_label_cumsum_proba[i]
                      - (u[i] * y_pred_proba[i][y_enc[i] + 1]) \div ONE]),
         cutoff |-> t.cutoff]

\* MapieClassifier._regularize_conformity_score: the (n,1,n_alpha) array
\* conf_score + max(lambda_ * (cutoff - k_star), 0).  lambda_ is given per alpha.
regularize_conformity_score(k_star, lambda_, conf_score, cutoff) ==
    array([i \in 1..Len(conf_score) |->
              array([j \in 1..Len(k_star) |->
                        conf_score[i] + Max2(lambda_[j] * (cutoff[i] - k_star[j]), 0)])])

\* ------------------------------------------------ the prediction-set assembler

\* The classes 0..K-1 of a row.
Classes(row) == 0..(Len(row) - 1)

\* The first (lowest) class of a non-empty set of classes that minimises f.
FirstArgMin(f, S) ==
    CHOOSE c \in S : /\ \A d \in S : f[c + 1] <= f[d + 1]
                     /\ \A d \in S : d < c => f[d + 1] > f[c + 1]

\* The first (lowest) class of a non-empty set of classes that maximises f.
FirstArgMax(f, S) ==
    CHOOSE c \in S : /\ \A d \in S : f[c + 1] >= f[d + 1]
                     /\ \A d \in S : d < c => f[d + 1] < f[c + 1]

\* _get_last_index_included taking the first label over the threshold whatever
\* include_last_label is: the mutant of get_last_index_included.
get_last_index_included_first_over(y_pred_proba_cumsum, threshold, include_last_label) ==
    LET unmasked == {c \in 0..(Len(y_pred_proba_cumsum) - 1) :
                        ~(y_pred_proba_cumsum[c + 1] - threshold < -EPSILON)}
    IN  IF unmasked = {} THEN 0
        ELSE CHOOSE c \in unmasked :
                 /\ \A d \in unmasked : y_pred_proba_cumsum[c + 1] <= y_pred_proba_cumsum[d + 1]
                 /\ \A d \in unmasked :
                        d < c => y_pred_proba_cumsum[d + 1] > y_pred_proba_cumsum[c + 1]

\* MapieClassifier._get_last_index_included for one sample and one threshold,
\* y_pred_proba_cumsum in the original class order.  A masked argmin/argmax whose
\* entries are all masked returns index 0.
get_last_index_included(y_pred_proba_cumsum, threshold, include_last_label) ==
    IF include_last_label \in {"True", "randomized"}
    THEN LET unmasked == {c \in Classes(y_pred_proba_cumsum) :
                             ~(y_pred_proba_cumsum[c + 1] - threshold < -EPSILON)}
         IN  IF unmasked = {} THEN 0 ELSE FirstArgMin(y_pred_proba_cumsum, unmasked)
    ELSE LET max_threshold ==
                 Max2(threshold,
                      y_pred_proba_cumsum[FirstArgMin(y_pred_proba_cumsum,
                                                      Classes(y_pred_proba_cumsum)) + 1])
             unmasked == {c \in Classes(y_pred_proba_cumsum) :
                             ~(y_pred_proba_cumsum[c + 1] - max_threshold > EPSILON)}
         IN  IF unmasked = {} THEN 0 ELSE FirstArgMax(y_pred_proba_cumsum, unmasked)

\* _get_last_included_proba without the replacement of a zero last probability: the
\* mutant of last_proba_floor.
last_proba_no_floor(y_pred_proba, y_pred_proba_last) == y_pred_proba_last

\* MapieClassifier._get_last_included_proba, the last lines: a last included
\* probability that is zero becomes the smallest probability of the row that is
\* not below EPSILON.
last_proba_floor(y_pred_proba, y_pred_proba_last) ==
    IF y_pred_proba_last <= EPSILON
    THEN LET positive == {c \in Classes(y_pred_proba) : ~(y_pred_proba[c + 1] < EPSILON)}
         IN  y_pred_proba[FirstArgMin(y_pred_proba, positive) + 1]
    ELSE y_pred_proba_last

\* MapieClassifier._get_last_included_proba for one sample and one threshold:
\* the cumulated (for raps: regularised) scores in the original class order, the
\* index of the last included label and its probability.  lambda_ and k_star are
\* read for method "raps" only.
get_last_included_proba(method, y_pred_proba, threshold, include_last_label, lambda_, k_star) ==
    LET index_sorted == fliplr(argsort(y_pred_proba))
        y_pred_proba_sorted_cumsum == cumsum(take(y_pred_proba, index_sorted))
        regularized ==
            IF method = "raps"
            THEN array([r \in 1..Len(y_pred_proba) |->
                           y_pred_proba_sorted_cumsum[r] + lambda_ * Max2(0, r - k_star)])
            ELSE y_pred_proba_sorted_cumsum
        y_pred_proba_cumsum == take(regularized, argsort(index_sorted))
        y_pred_index_last ==
            get_last_index_included(y_pred_proba_cumsum, threshold, include_last_label)
    IN  [y_pred_proba_cumsum |-> y_pred_proba_cumsum,
         y_pred_index_last |-> y_pred_index_last,
         y_pred_proba_last |-> last_proba_floor(y_pred_proba, y_pred_proba[y_pred_index_last + 1])]

\* np.less_equal(vs - us, EPSILON) for vs = num / den, with the float results of a
\* division by zero (inf, -inf, nan).
vs_less_than_us(num, den, u) ==
    IF den > 0 THEN num * ONE - u * den <= EPSILON
    ELSE IF den < 0 THEN num * ONE - u * den >= -EPSILON
    ELSE num < 0

\* The tie-breaking with the comparison turned round: the mutant of
\* add_random_tie_breaking.
add_random_tie_breaking_reversed(method, prediction_set, last, threshold, lambda_star, k_star, u) ==
    LET den == IF method \in {"cumulated_score", "aps"}
               THEN last.y_pred_proba_last
               ELSE last.y_pred_proba_last
                    - lambda_star * Max2(0, Cardinality(prediction_set) - k_star)
                    + lambda_star * (IF Cardinality(prediction_set) > k_star THEN 1 ELSE 0)
        num == last.y_pred_proba_cumsum[last.y_pred_index_last + 1] - threshold
    IN  IF ~vs_less_than_us(num, den, u)
        THEN prediction_set \cup {last.y_pred_index_last}
        ELSE prediction_set \ {last.y_pred_index_last}

\* MapieClassifier._add_random_tie_breaking for one sample and one threshold: the
\* membership of the last included label becomes (V - U <= EPSILON).
add_random_tie_breaking(method, prediction_set, last, threshold, lambda_star, k_star, u) ==
    LET den == IF method \in {"cumulated_score", "aps"}
               THEN last.y_pred_proba_last
               ELSE last.y_pred_proba_last
                    - lambda_star * Max2(0, Cardinality(prediction_set) - k_star)
                    + lambda_star * (IF Cardinality(prediction_set) > k_star THEN 1 ELSE 0)
        num == last.y_pred_proba_cumsum[last.y_pred_index_last + 1] - threshold
    IN  IF vs_less_than_us(num, den, u)
        THEN prediction_set \cup {last.y_pred_index_last}
        ELSE prediction_set \ {last.y_pred_index_last}

\* The classes strictly more probable than the last included one: the mutant of
\* at_least.
strictly_above(y_pred_proba, y_pred_proba_last) ==
    {c \in Classes(y_pred_proba) : y_pred_proba[c + 1] - y_pred_proba_last > EPSILON}

\* np.greater_equal(y_pred_proba - y_pred_proba_last, -EPSILON) on one row.
at_least(y_pred_proba, y_pred_proba_last) ==
    {c \in Classes(y_pred_proba) : y_pred_proba[c + 1] - y_pred_proba_last >= -EPSILON}

\* np.less_equal(y_pred_proba - y_pred_proba_last, EPSILON) on one row.
at_most(y_pred_proba, y_pred_proba_last) ==
    {c \in Classes(y_pred_proba) : y_pred_proba[c + 1] - y_pred_proba_last <= EPSILON}

\* ------------------------------------------------ the RAPS regularisation search

\* The candidates of _find_lambda_star: .001, .01, .1, .2, .5.
lambda_candidates == <<ONE \div 1000, ONE \div 100, ONE \div 10, ONE \div 5, ONE \div 2>>

\* np.finfo(np.float64).max as a total set size: more than n samples of K labels.
float_max(n, K) == ONE * (n * K + 1)

\* _update_size_and_lambda adopting a candidate that is not worse: the mutant of
\* update_size_and_lambda.
update_size_and_lambda_not_worse(best_sizes, sizes, lambda_, lambda_star) ==
    [lambda_star |->
         array([j \in 1..Len(sizes) |->
                   IF sizes[j] <= best_sizes[j] THEN lambda_ ELSE lambda_star[j]]),
     best_sizes |->
         array([j \in 1..Len(sizes) |->
                   IF sizes[j] <= best_sizes[j] THEN sizes[j] ELSE best_sizes[j]])]

\* MapieClassifier._update_size_and_lambda: per alpha, adopt lambda_ when its
\* size is smaller than the best size by more than EPSILON.
update_size_and_lambda(best_sizes, sizes, lambda_, lambda_star) ==
    [lambda_star |->
         array([j \in 1..Len(sizes) |->
                   IF sizes[j] < best_sizes[j] - EPSILON THEN lambda_ ELSE lambda_star[j]]),
     best_sizes |->
         array([j \in 1..Len(sizes) |->
                   IF sizes[j] < best_sizes[j] - EPSILON THEN sizes[j] ELSE best_sizes[j]])]

\* The body of the loop of _find_lambda_star for one candidate: the trial
\* prediction sets on the held-out split, y_ps[j][i] for alpha j and sample i.
raps_trial_sets(y_pred_proba_raps, y_raps_no_enc, classes, alpha_np, include_last_label, k_star, lambda_) ==
    LET t == get_true_label_cumsum_proba(y_raps_no_enc, y_pred_proba_raps, classes)
        true_label_cumsum_proba_reg ==
            regularize_conformity_score(k_star, array([j \in 1..Len(alpha_np) |-> lambda_]),
                                        t.true_label_cumsum_proba, t.cutoff)
        quantiles_ == compute_quantiles_3d(true_label_cumsum_proba_reg, alpha_np)
    IN  array([j \in 1..Len(alpha_np) |->
            array([i \in 1..Len(y_pred_proba_raps) |->
                at_least(y_pred_proba_raps[i],
                         get_last_included_proba("raps", y_pred_proba_raps[i], quantiles_[j],
                                                 include_last_label, lambda_,
                                                 k_star[j]).y_pred_proba_last)])])

RECURSIVE lambda_loop(_, _, _, _, _, _, _, _)
lambda_loop(y_pred_proba_raps, y_raps_no_enc, classes, alpha_np, include_last_label, k_star, c, acc) ==
    IF c > Len(lambda_candidates) THEN acc.lambda_star
    ELSE LET y_ps == raps_trial_sets(y_pred_proba_raps, y_raps_no_enc, classes, alpha_np,
                                     include_last_label, k_star, lambda_candidates[c])
             sizes == array([j \in 1..Len(alpha_np) |-> mean_width_score_n(y_ps[j])])
         IN  lambda_loop(y_pred_proba_raps, y_raps_no_enc, classes, alpha_np,
                         include_last_label, k_star, c + 1,
                         update_size_and_lambda(acc.best_sizes, sizes,
                                                lambda_candidates[c], acc.lambda_star))

\* MapieClassifier._find_lambda_star: lambda_star per alpha.
find_lambda_star(y_pred_proba_raps, y_raps_no_enc, classes, alpha_np, include_last_label, k_star) ==
    lambda_loop(y_pred_proba_raps, y_raps_no_enc, classes, alpha_np, include_last_label,
                k_star, 1,
                [lambda_star |-> array([j \in 1..Len(alpha_np) |-> 0]),
                 best_sizes |-> array([j \in 1..Len(alpha_np) |->
                                          float_max(Len(y_pred_proba_raps),
                                                    Len(y_pred_proba_raps[1]))])])

\* ------------------------------------------------------- the fitted instance

raps_valid_cv_ == {"prefit", "split"}

valid_methods_ == {"naive", "score", "lac", "cumulated_score", "aps", "top_k", "raps"}

\* MapieClassifier.fit_attributes: what check_is_fitted asks for.
fit_attributes == {"n_features_in_", "conformity_scores_", "classes_", "label_encoder_"}

\* Every attribute fit sets on the instance that describes the fit.
fitted_fields ==
    {"n_features_in_", "n_classes_", "classes_", "label_encoder_", "k_", "n_samples_",
     "X_raps", "y_raps", "y_raps_no_enc", "estimator_", "y_pred_proba_raps",
     "position_raps", "conformity_scores_", "cutoff"}

\* The attributes predict sets on the instance.
predict_fields == {"quantiles_", "conformity_scores_regularized"}

\* MapieClassifier.__init__: the parameters are stored, no other attribute exists.
init(method, cv, random_state) ==
    [f \in fitted_fields \cup predict_fields |-> NoAttr]
        @@ [method |-> method, cv |-> cv, random_state |-> random_state]

\* The fitted state of an instance: its attributes set by fit.
fitted_state(obj) == [f \in fitted_fields |-> obj[f]]

\* check_is_fitted asking for the estimator only: the mutant of check_is_fitted.
check_is_fitted_estimator(obj) == HasAttr(obj.estimator_)

\* check_is_fitted(self, self.fit_attributes): every attribute exists.
check_is_fitted(obj) == \A f \in fit_attributes : HasAttr(obj[f])

\* MapieClassifier._check_depreciated: the warnings it emits.
check_depreciated(obj) ==
    IF obj.method \in {"score", "cumulated_score"} THEN {"DeprecationWarning"} ELSE {}

\* _check_raps accepting every cv: the mutant of check_raps.
check_raps_any_cv(obj) == obj.method \in valid_methods_

\* MapieClassifier._check_raps.
check_raps(obj) ==
    ~(obj.method = "raps" /\ (obj.cv \notin raps_valid_cv_ \/ obj.cv = "ShuffleSplit"))

\* MapieClassifier._check_parameters: the error raised, or "none".
check_parameters(obj) ==
    IF obj.method \notin valid_methods_ THEN "InvalidMethod"
    ELSE IF ~check_raps(obj) THEN "IncompatibleCV"
    ELSE "none"

\* MapieClassifier._check_target: a binary target needs method "score" or "lac".
check_target(obj, y) ==
    ~(Cardinality(Range(y)) <= 2 /\ obj.method \notin {"score", "lac"})

\* LabelEncoder.transform: the 0-indexed position of each label in classes.
transform(classes, y) ==
    array([i \in 1..Len(y) |-> (CHOOSE c \in 1..Len(classes) : classes[c] = y[i]) - 1])

\* LabelEncoder.inverse_transform.
inverse_transform(classes, y_enc) ==
    array([i \in 1..Len(y_enc) |-> classes[y_enc[i] + 1]])

\* The classes read from the labels whatever cv is.
get_classes_info_from_y(obj, estimator_classes, y) == Attr(unique(y))

\* MapieClassifier._get_classes_info: the classes, or <<>> when cv is "prefit"
\* and a label of y is not a class of the estimator.
get_classes_info(obj, estimator_classes, y) ==
    IF obj.cv = "prefit"
    THEN IF Range(y) \subseteq Range(estimator_classes) THEN Attr(estimator_classes) ELSE NoAttr
    ELSE Attr(unique(y))

\* sklearn's ShuffleSplit(1, test_size=size_raps): the number of held-out samples.
n_test(n, size_raps) == (n * size_raps + ONE - 1) \div ONE

\* _safe_indexing: the entries of a at the 1-indexed positions index.
safe_indexing(a, index) == array([i \in 1..Len(index) |-> a[index[i]]])

\* _split_raps_data handing on every sample, the held-out ones included: the
\* mutant of split_raps_data.
split_raps_data_all(n, perm, size_raps, sample_weight, groups) ==
    [train_raps_index |-> perm,
     val_raps_index |-> SubSeq(perm, 1, n_test(n, size_raps)),
     sample_weight |-> IF sample_weight # <<>> THEN safe_indexing(sample_weight, perm) ELSE <<>>,
     groups |-> IF groups # <<>> THEN safe_indexing(groups, perm) ELSE <<>>]

\* MapieClassifier._split_raps_data on n samples: ShuffleSplit(1, test_size=
\* size_raps) holds out the first n_test entries of the permutation perm it
\* draws and keeps the others; sample_weight and groups (<<>> for None) are
\* indexed by the kept indices.
split_raps_data(n, perm, size_raps, sample_weight, groups) ==
    [train_raps_index |-> SubSeq(perm, n_test(n, size_raps) + 1, n),
     val_raps_index |-> SubSeq(perm, 1, n_test(n, size_raps)),
     sample_weight |-> IF sample_weight # <<>>
                       THEN safe_indexing(sample_weight,
                                          SubSeq(perm, n_test(n, size_raps) + 1, n))
                       ELSE <<>>,
     groups |-> IF groups # <<>>
                THEN safe_indexing(groups, SubSeq(perm, n_test(n, size_raps) + 1, n))
                ELSE <<>>]

\* The conformity scores of fit with the former method names unknown to the
\* dispatch, which then takes its last branch: the mutant of conformity_scores.
conformity_scores_new_names(obj, y, y_enc, y_pred_proba, classes, u, junk) ==
    IF obj.method = "naive"
    THEN [conformity_scores_ |->
             array([i \in 1..Len(y_pred_proba) |->
                       array([c \in 1..Len(y_pred_proba[i]) |-> junk])]),
          cutoff |-> NoAttr]
    ELSE IF obj.method = "lac"
    THEN [conformity_scores_ |-> lac_scores(y_pred_proba, y_enc), cutoff |-> NoAttr]
    ELSE IF obj.method \in {"aps", "raps"}
    THEN [conformity_scores_ |-> aps_scores(y, y_enc, y_pred_proba, classes, u).conformity_scores_,
          cutoff |-> Attr(aps_scores(y, y_enc, y_pred_proba, classes, u).cutoff)]
    ELSE [conformity_scores_ |-> get_true_label_position(y_pred_proba, y_enc),
          cutoff |-> NoAttr]

\* The conformity scores (and the cutoff) fit computes for the method.
\* method "naive" stores an uninitialised (n,K) array: its content is junk.
conformity_scores(obj, y, y_enc, y_pred_proba, classes, u, junk) ==
    IF obj.method = "naive"
    THEN [conformity_scores_ |->
             array([i \in 1..Len(y_pred_proba) |->
                       array([c \in 1..Len(y_pred_proba[i]) |-> junk])]),
          cutoff |-> NoAttr]
    ELSE IF obj.method \in {"score", "lac"}
    THEN [conformity_scores_ |-> lac_scores(y_pred_proba, y_enc), cutoff |-> NoAttr]
    ELSE IF obj.method \in {"cumulated_score", "aps", "raps"}
    THEN LET a == aps_scores(y, y_enc, y_pred_proba, classes, u)
         IN  [conformity_scores_ |-> a.conformity_scores_, cutoff |-> Attr(a.cutoff)]
    ELSE [conformity_scores_ |-> get_true_label_position(y_pred_proba, y_enc),
          cutoff |-> NoAttr]

\* MapieClassifier.fit on the data d = [n_features, y, classes, proba] (proba:
\* the probabilities the ensemble estimator returns for the samples of d, classes:
\* the classes_ of the estimator handed to the constructor).  perm is the
\* permutation ShuffleSplit draws, estimator_fails whether the ensemble
\* estimator's fit raises.  The result: the instance as the call leaves it, the
\* position of the shared generator, the error raised ("none": fit returned) and
\* the warnings emitted.
fit(obj, rng, d, size_raps, perm, estimator_fails, junk) ==
    LET n_all == Len(d.y)
        \* _check_fit_parameter
        o1 == [obj EXCEPT !.n_features_in_ = Attr(d.n_features)]
        info == get_classes_info(obj, d.classes, d.y)
        classes == Get(info)
        o2 == [o1 EXCEPT !.n_classes_ = Attr(Len(unique(classes))), !.classes_ = Attr(classes),
                         !.label_encoder_ = Attr(classes)]
        y_enc_all == transform(classes, d.y)
        \* fit
        o3 == [o2 EXCEPT !.k_ = Attr(array([i \in 1..n_all |-> junk])),
                         !.n_samples_ = Attr(n_all)]
        raps == obj.method = "raps"
        \* _split_raps_data
        val_raps_index == split_raps_data(n_all, perm, size_raps, <<>>, <<>>).val_raps_index
        train_raps_index == split_raps_data(n_all, perm, size_raps, <<>>, <<>>).train_raps_index
        index == IF raps THEN train_raps_index ELSE array([i \in 1..n_all |-> i])
        y_raps == safe_indexing(y_enc_all, val_raps_index)
        o4 == IF raps
              THEN [o3 EXCEPT !.X_raps = Attr(val_raps_index), !.y_raps = Attr(y_raps),
                              !.y_raps_no_enc = Attr(inverse_transform(classes, y_raps))]
              ELSE o3
        rng1 == IF raps /\ obj.random_state.kind # "int" THEN rng + n_all ELSE rng
        y_enc == safe_indexing(y_enc_all, index)
        y == inverse_transform(classes, y_enc)
        \* the ensemble estimator
        o5 == [o4 EXCEPT !.estimator_ =
                  Attr([classes |-> classes, fitted |-> ~estimator_fails,
                        y_pred_proba |-> IF estimator_fails THEN <<>>
                                         ELSE safe_indexing(d.proba, index),
                        y_enc |-> IF estimator_fails THEN <<>> ELSE y_enc])]
        y_pred_proba == safe_indexing(d.proba, index)
        y_pred_proba_raps == safe_indexing(d.proba, val_raps_index)
        o6 == IF raps
              THEN [o5 EXCEPT !.y_pred_proba_raps = Attr(y_pred_proba_raps),
                              !.position_raps =
                                  Attr(get_true_label_position(y_pred_proba_raps, y_raps))]
              ELSE o5
        \* conformity scores
        draws == obj.method \in {"cumulated_score", "aps", "raps"}
        drawn == uniform(obj.random_state, rng1, Len(y_pred_proba))
        cs == conformity_scores(obj, y, y_enc, y_pred_proba, classes, drawn.us, junk)
        o7 == [o6 EXCEPT !.conformity_scores_ = Attr(cs.conformity_scores_),
                         !.cutoff = IF HasAttr(cs.cutoff) THEN cs.cutoff ELSE o6.cutoff]
        \* _check_parameters raises on the method before _check_depreciated
        warnings == IF obj.method \in valid_methods_ THEN check_depreciated(obj) ELSE {}
    IN  IF check_parameters(obj) # "none"
        THEN [obj |-> obj, rng |-> rng, err |-> check_parameters(obj), warnings |-> warnings]
        ELSE IF ~HasAttr(info)
        THEN [obj |-> o1, rng |-> rng, err |-> "ClassMismatch", warnings |-> warnings]
        ELSE IF ~check_target(obj, d.y)
        THEN [obj |-> o2, rng |-> rng, err |-> "InvalidTargetType", warnings |-> warnings]
        ELSE IF estimator_fails
        THEN [obj |-> o5, rng |-> rng1, err |-> "EstimatorError", warnings |-> warnings]
        ELSE [obj |-> o7, rng |-> IF draws THEN drawn.rng ELSE rng1, err |-> "none",
              warnings |-> warnings]

\* ------------------------------------------------------------------ predict

\* A test set X is a sequence of samples [mean, folds]: mean is the row the
\* ensemble estimator predicts for agg_scores "mean" (and the single estimator's
\* row), folds the rows of its out-of-fold models.

\* estimator_.predict(X, "mean") for one sample.
predict_mean(x) == x.mean

\* estimator_.predict(X, "crossval") for one sample: one row per training sample
\* j, the row of the out-of-fold model of j.
predict_crossval(x, n) == array([j \in 1..n |-> x.folds[((j - 1) % Len(x.folds)) + 1]])

\* The most probable class under the last out-of-fold model of each sample.
single_estimator_predict_last_fold(estimator, X) ==
    array([i \in 1..Len(X) |->
              estimator.classes[argmax(X[i].folds[Len(X[i].folds)]) + 1]])

\* estimator_.single_estimator_.predict(X): the most probable class of each sample.
single_estimator_predict(estimator, X) ==
    array([i \in 1..Len(X) |-> estimator.classes[argmax(X[i].mean) + 1]])

\* _check_proba_normalized: every row sums to one.
check_proba_normalized(X, crossval) ==
    \A i \in 1..Len(X) :
        IF crossval THEN \A f \in 1..Len(X[i].folds) : SumSeq(X[i].folds[f]) = ONE
        ELSE SumSeq(X[i].mean) = ONE

\* Every call taken to be in the crossval regime: the mutant of mean_regime.
mean_regime_never(obj, agg_scores) == FALSE

\* (cv == "prefit") or (agg_scores in ["mean"]), agg_scores being "mean" for top_k.
mean_regime(obj, agg_scores) ==
    obj.cv = "prefit" \/ agg_scores = "mean" \/ obj.method = "top_k"

\* predict storing the regularised scores over conformity_scores_ as well, as a
\* regularisation done in place would: the mutant of store_regularized.
store_regularized_in_place(obj, conformity_scores_regularized) ==
    [obj EXCEPT !.conformity_scores_regularized = Attr(conformity_scores_regularized),
                !.conformity_scores_ =
                    Attr(array([i \in 1..Len(conformity_scores_regularized) |->
                                   conformity_scores_regularized[i][1]]))]

\* predict, method "raps": self.conformity_scores_regularized = the array
\* _regularize_conformity_score returns, a copy (np.repeat) of its argument
\* self.conformity_scores_, which stays as it was.
store_regularized(obj, conformity_scores_regularized) ==
    [obj EXCEPT !.conformity_scores_regularized = Attr(conformity_scores_regularized)]

\* The levels themselves as thresholds: the mutant of naive_quantiles.
naive_quantiles_alpha(alpha_np) == alpha_np

\* predict, method "naive": 1 - alpha_np.
naive_quantiles(alpha_np) == array([j \in 1..Len(alpha_np) |-> ONE - alpha_np[j]])

\* self.quantiles_ kept from an earlier call with as many alpha: the mutant of
\* store_quantiles.
store_quantiles_once(obj, quantiles_) ==
    IF HasAttr(obj.quantiles_) /\ Len(Get(obj.quantiles_)) = Len(quantiles_)
    THEN obj
    ELSE [obj EXCEPT !.quantiles_ = Attr(quantiles_)]

\* predict: self.quantiles_ = quantiles_.
store_quantiles(obj, quantiles_) == [obj EXCEPT !.quantiles_ = Attr(quantiles_)]

\* predict up to "Choice of the quantile": the checks, the point predictions and
\* the thresholds, which are stored in self.quantiles_.  alpha is <<>> (None) or
\* <<alpha_np>>.  k_star and lambda_star are local to the call, <<>> for None.
predict_quantiles(obj, X, alpha, include_last_label, agg_scores) ==
    LET alpha_np == Get(alpha)
        n == Len(Get(obj.conformity_scores_))
        estimator == Get(obj.estimator_)
        y_pred == single_estimator_predict(estimator, X)
        fail(e) == [err |-> e, obj |-> obj, y_pred |-> <<>>, k_star |-> <<>>,
                    lambda_star |-> <<>>]
        done(o, k, l) == [err |-> "none", obj |-> o, y_pred |-> y_pred, k_star |-> k,
                          lambda_star |-> l]
        position_quantiles == compute_quantiles(Get(obj.position_raps), alpha_np)
        k_star == array([j \in 1..Len(alpha_np) |-> position_quantiles[j] + 1])
        lambda_star == find_lambda_star(Get(obj.y_pred_proba_raps), Get(obj.y_raps_no_enc),
                                        Get(obj.classes_), alpha_np, include_last_label,
                                        k_star)
        regularized == regularize_conformity_score(k_star, lambda_star,
                                                   Get(obj.conformity_scores_),
                                                   Get(obj.cutoff))
    IN  IF include_last_label \notin {"True", "False", "randomized"}
        THEN fail("InvalidIncludeLastLabel")
        ELSE IF HasAttr(alpha) /\ ~check_alpha(alpha_np) THEN fail("InvalidAlpha")
        ELSE IF ~check_is_fitted(obj) THEN fail("NotFitted")
        ELSE IF ~estimator.fitted THEN fail("EstimatorNotFitted")
        ELSE IF ~HasAttr(alpha) THEN done(obj, <<>>, <<>>)
        ELSE IF ~check_alpha_and_n_samples(alpha_np, n) THEN fail("InvalidAlpha")
        ELSE IF ~check_proba_normalized(X, ~mean_regime(obj, agg_scores))
        THEN fail("UnnormalizedProbability")
        ELSE IF obj.method = "naive"
        THEN done(store_quantiles(obj, naive_quantiles(alpha_np)), <<>>, <<>>)
        ELSE IF ~mean_regime(obj, agg_scores)
        THEN done(store_quantiles(obj, array([j \in 1..Len(alpha_np) |->
                                                 (n + 1) * (ONE - alpha_np[j])])),
                  <<>>, <<>>)
        ELSE IF obj.method = "raps"
        THEN IF ~check_alpha_and_n_samples(alpha_np, Len(Get(obj.X_raps)))
             THEN fail("InvalidAlpha")
             ELSE done(store_quantiles(store_regularized(obj, regularized),
                                       compute_quantiles_3d(regularized, alpha_np)),
                       k_star, lambda_star)
        ELSE done(store_quantiles(obj, compute_quantiles(Get(obj.conformity_scores_),
                                                         alpha_np)),
                  <<>>, <<>>)

\* The lac sets with the threshold itself as the bound on the probability: the
\* mutant of lac_prediction_set.
lac_prediction_set_quantile(y_pred_proba, quantile) == at_least(y_pred_proba, quantile)

\* predict, "lac" in the mean regime, one sample and one alpha:
\* np.greater_equal(y_pred_proba - (1 - self.quantiles_), -EPSILON).
lac_prediction_set(y_pred_proba, quantile) == at_least(y_pred_proba, ONE - quantile)

\* The lac sets of the crossval regime with the count compared to
\* (n + 1)(1 - alpha): the mutant of lac_crossval_sets.
lac_crossval_sets_quantile(proba, conformity_scores_, alpha_np) ==
    LET n == Len(conformity_scores_)
    IN  array([a \in 1..Len(alpha_np) |->
                  {c \in Classes(proba[1]) :
                      Cardinality({j \in 1..n :
                          (ONE - proba[j][c + 1]) - conformity_scores_[j] <= EPSILON}) * ONE
                          > (n + 1) * (ONE - alpha_np[a])}])

\* predict, "lac" in the crossval regime, one sample: per class the number of
\* training scores that are at least 1 - probability, compared with alpha (n - 1).
lac_crossval_sets(proba, conformity_scores_, alpha_np) ==
    LET n == Len(conformity_scores_)
        y_pred_included ==
            array([c \in 1..Len(proba[1]) |->
                      Cardinality({j \in 1..n :
                          (ONE - proba[j][c]) - conformity_scores_[j] <= EPSILON})])
    IN  array([a \in 1..Len(alpha_np) |->
                  {c \in Classes(proba[1]) :
                      y_pred_included[c + 1] * ONE - alpha_np[a] * (n - 1) >= -EPSILON}])

\* predict, "naive"/"aps"/"raps" in the mean regime, one sample and one alpha.
cumulated_prediction_set(method, y_pred_proba, threshold, include_last_label, lambda_star, k_star, u) ==
    LET last == get_last_included_proba(method, y_pred_proba, threshold,
                                        include_last_label, lambda_star, k_star)
        y_pred_included == at_least(y_pred_proba, last.y_pred_proba_last)
    IN  IF include_last_label = "randomized"
        THEN add_random_tie_breaking(method, y_pred_included, last, threshold,
                                     lambda_star, k_star, u)
        ELSE y_pred_included

\* predict, "aps" in the crossval regime, one sample: per class the number of
\* training samples j for which the class is not more probable than the last
\* label included under threshold conformity_scores_[j], compared with quantiles_.
cumulated_crossval_sets(method, proba, conformity_scores_, quantiles_, include_last_label, u) ==
    LET n == Len(conformity_scores_)
        y_pred_included ==
            array([j \in 1..n |->
                LET last == get_last_included_proba(method, proba[j], conformity_scores_[j],
                                                    include_last_label, 0, 0)
                    included == at_most(proba[j], last.y_pred_proba_last)
                IN  IF include_last_label = "randomized"
                    THEN add_random_tie_breaking(method, included, last,
                                                 conformity_scores_[j], 0, 0, u)
                    ELSE included])
        prediction_sets_summed ==
            array([c \in 1..Len(proba[1]) |->
                      Cardinality({j \in 1..n : (c - 1) \in y_pred_included[j]})])
    IN  array([a \in 1..Len(quantiles_) |->
                  {c \in Classes(proba[1]) :
                      prediction_sets_summed[c + 1] * ONE - quantiles_[a] <= EPSILON}])

\* The top_k set of the labels more probable than the label at position
\* quantile, that label left out: the mutant of top_k_prediction_set.
top_k_prediction_set_above(y_pred_proba, quantile) ==
    {c \in Classes(y_pred_proba) :
        y_pred_proba[c + 1]
            > y_pred_proba[fliplr(argsort(y_pred_proba))[quantile + 1] + 1] + EPSILON}

\* predict, "top_k", one sample and one alpha: the labels at least as probable as
\* the label at position quantile of the decreasing order.
top_k_prediction_set(y_pred_proba, quantile) ==
    at_least(y_pred_proba, y_pred_proba[fliplr(argsort(y_pred_proba))[quantile + 1] + 1])

\* predict from "Build prediction sets": the sets, built from self.quantiles_ as
\* the instance holds it now.  sets[i][j] is the set of the classes included for
\* sample i at the j-th alpha.
predict_sets(obj, rng, X, alpha_np, include_last_label, agg_scores, k_star, lambda_star) ==
    LET quantiles_ == Get(obj.quantiles_)
        conformity_scores_ == Get(obj.conformity_scores_)
        n == Len(conformity_scores_)
        drawn == uniform(obj.random_state, rng, Len(X))
        randomized == include_last_label = "randomized"
        fail(e) == [err |-> e, sets |-> <<>>, rng |-> rng]
        done(sets, r) == [err |-> "none", sets |-> sets, rng |-> r]
        lam(j) == IF obj.method = "raps" THEN lambda_star[j] ELSE 0
        k(j) == IF obj.method = "raps" THEN k_star[j] ELSE 0
    IN  IF obj.method \in {"score", "lac"}
        THEN IF mean_regime(obj, agg_scores)
             THEN done(array([i \in 1..Len(X) |-> array([j \in 1..Len(alpha_np) |->
                           lac_prediction_set(predict_mean(X[i]), quantiles_[j])])]), rng)
             ELSE done(array([i \in 1..Len(X) |->
                           lac_crossval_sets(predict_crossval(X[i], n), conformity_scores_,
                                             alpha_np)]), rng)
        ELSE IF obj.method \in {"naive", "cumulated_score", "aps", "raps"}
        THEN IF mean_regime(obj, agg_scores)
             THEN IF randomized /\ obj.method = "naive" THEN fail("TypeError")
                  ELSE done(array([i \in 1..Len(X) |-> array([j \in 1..Len(alpha_np) |->
                                cumulated_prediction_set(obj.method, predict_mean(X[i]),
                                    quantiles_[j], include_last_label, lam(j), k(j),
                                    drawn.us[i])])]),
                            IF randomized THEN drawn.rng ELSE rng)
             ELSE IF obj.method = "naive" THEN fail("ValueError")
             ELSE IF obj.method = "raps" THEN fail("TypeError")
             ELSE done(array([i \in 1..Len(X) |->
                           cumulated_crossval_sets(obj.method, predict_crossval(X[i], n),
                               conformity_scores_, quantiles_, include_last_label,
                               drawn.us[i])]),
                       IF randomized THEN drawn.rng ELSE rng)
        ELSE IF \E j \in 1..Len(alpha_np) : quantiles_[j] \notin Classes(X[1].mean)
        THEN fail("IndexError")
        ELSE done(array([i \in 1..Len(X) |-> array([j \in 1..Len(alpha_np) |->
                      top_k_prediction_set(predict_mean(X[i]), quantiles_[j])])]), rng)

\* MapieClassifier.predict, the whole call: what it leaves on the instance, the
\* position of the shared generator, the error raised ("none": predict
\* returned), the point predictions and, when alpha is given, the sets.  q is
\* the state of the call at "Build prediction sets" and s what that part builds,
\* each computed once (x \in {e} binds x to the value of e).
predict(obj, rng, X, alpha, include_last_label, agg_scores) ==
    CHOOSE result \in
        {IF q.err # "none"
         THEN [obj |-> q.obj, rng |-> rng, err |-> q.err, y_pred |-> <<>>, sets |-> <<>>]
         ELSE IF ~HasAttr(alpha)
         THEN [obj |-> q.obj, rng |-> rng, err |-> "none", y_pred |-> q.y_pred,
               sets |-> <<>>]
         ELSE CHOOSE built \in
                 {IF s.err # "none"
                  THEN [obj |-> q.obj, rng |-> rng, err |-> s.err, y_pred |-> <<>>,
                        sets |-> <<>>]
                  ELSE [obj |-> q.obj, rng |-> s.rng, err |-> "none", y_pred |-> q.y_pred,
                        sets |-> s.sets] :
                     s \in {predict_sets(q.obj, rng, X, Get(alpha), include_last_label,
                                         agg_scores, q.k_star, q.lambda_star)}} : TRUE :
            q \in {predict_quantiles(obj, X, alpha, include_last_label, agg_scores)}} : TRUE

\* ------------------------------------------------------------------- inputs

\* A row of probabilities given in tenths.
Row(tenths) == array([c \in 1..Len(tenths) |-> tenths[c] * (ONE \div 10)])

\* The calibration data of the worked example of the specification.
DataExample ==
    [n_features |-> 1, y |-> <<0, 1, 2>>, classes |-> <<0, 1, 2>>,
     proba |-> <<Row(<<7, 2, 1>>), Row(<<1, 8, 1>>), Row(<<3, 3, 4>>)>>]

\* Labels that are not 0..K-1 and are not in order.
DataLabels ==
    [n_features |-> 2, y |-> <<20, 10, 30, 10>>, classes |-> <<10, 20, 30>>,
     proba |-> <<Row(<<2, 5, 3>>), Row(<<6, 4, 0>>), Row(<<1, 3, 6>>), Row(<<3, 3, 4>>)>>]

\* Six samples: enough for a RAPS held-out half.
DataSix ==
    [n_features |-> 1, y |-> <<0, 1, 2, 2, 0, 1>>, classes |-> <<0, 1, 2>>,
     proba |-> <<Row(<<7, 2, 1>>), Row(<<1, 8, 1>>), Row(<<3, 3, 4>>),
                 Row(<<5, 5, 0>>), Row(<<2, 3, 5>>), Row(<<4, 4, 2>>)>>]

\* A binary target handed to a three-class prefit estimator.
DataBinary ==
    [n_features |-> 1, y |-> <<0, 1, 0>>, classes |-> <<0, 1, 2>>,
     proba |-> <<Row(<<7, 2, 1>>), Row(<<1, 8, 1>>), Row(<<5, 3, 2>>)>>]

\* A calibration label the prefit estimator does not know.
DataMismatch ==
    [n_features |-> 1, y |-> <<0, 1, 3>>, classes |-> <<0, 1, 2>>,
     proba |-> <<Row(<<7, 2, 1>>), Row(<<1, 8, 1>>), Row(<<3, 3, 4>>)>>]

\* A test sample: the row of the ensemble and the rows of two out-of-fold models.
Sample(mean, fold1, fold2) == [mean |-> Row(mean), folds |-> <<Row(fold1), Row(fold2)>>]

XExample == <<Sample(<<5, 3, 2>>, <<5, 3, 2>>, <<2, 3, 5>>)>>

XTwo == <<Sample(<<4, 4, 2>>, <<6, 4, 0>>, <<3, 3, 4>>),
          Sample(<<0, 1, 9>>, <<1, 1, 8>>, <<0, 5, 5>>)>>

\* The levels alpha is drawn from.
AlphaValues == {2 * (ONE \div 5), ONE \div 2, 4 * (ONE \div 5)}

\* Every sequence of 1..n levels.
RECURSIVE AlphaSeqs(_)
AlphaSeqs(n) ==
    IF n = 0 THEN {}
    ELSE {<<a>> : a \in AlphaValues}
         \cup {Append(q, a) : q \in AlphaSeqs(n - 1), a \in AlphaValues}

\* The alpha argument of predict: None, or the array check_alpha makes of it.
AlphaArgs(n) == {<<>>} \cup {<<q>> : q \in AlphaSeqs(n)}

\* The permutations ShuffleSplit may draw for the RAPS split of n samples.
Perms(n) == {array([i \in 1..n |-> i]), array([i \in 1..n |-> n + 1 - i])}

\* The content np.empty may leave in the array of method "naive".
Junk == {0, ONE}

\* size_raps of fit.
size_raps == ONE \div 2

\* ------------------------------------------------------------- the state

VARIABLES
    self,       \* the MapieClassifier instance: parameters and attributes
    rng,        \* the position of the generator shared between calls
    ret,        \* the last call made on the instance and what it returned
    calls,      \* the number of calls made on the instance
    fitted_ok,  \* whether a call of fit on the instance has returned
    pc,         \* per thread of predict: where it is
    local       \* per thread of predict: its local variables

vars == <<self, rng, ret, calls, fitted_ok, pc, local>>

NoCall ==
    [call |-> "none", err |-> "none", y_pred |-> <<>>, sets |-> <<>>, args |-> <<>>,
     warnings |-> {}]

Threads == {1, 2}

NoThreads ==
    /\ pc = [t \in Threads |-> "idle"]
    /\ local = [t \in Threads |-> <<>>]

\* A new instance MapieClassifier(estimator, method, cv, random_state) for every
\* choice of the parameters, and no call made yet.
New(methods, cvs, random_states) ==
    /\ self \in {init(method, cv, random_state) :
                    method \in methods, cv \in cvs, random_state \in random_states}
    /\ rng = 0
    /\ ret = NoCall
    /\ calls = 0
    /\ fitted_ok = FALSE
    /\ NoThreads

\* What the split and the uninitialised arrays of fit depend on.
FitChoices(d) ==
    [perm : IF self.method = "raps" THEN Perms(Len(d.y)) ELSE {<<>>}, junk : Junk]

\* The call self.fit(X, y, size_raps=size) on data d.  Unless cv is "prefit" the
\* estimator is trained by the call, so that its classes are those of y.
FitCallSized(d, estimator_fails, size) ==
    /\ calls < MaxCalls
    /\ self.cv # "prefit" => d.classes = unique(d.y)
    /\ \E c \in FitChoices(d) :
          \E r \in {fit(self, rng, d, size, c.perm, estimator_fails, c.junk)} :
              /\ self' = r.obj
              /\ rng' = r.rng
              /\ ret' = [call |-> "fit", err |-> r.err, y_pred |-> <<>>, sets |-> <<>>,
                         args |-> <<d, estimator_fails, size>>,
                         warnings |-> r.warnings]
              /\ fitted_ok' = (fitted_ok \/ r.err = "none")
    /\ calls' = calls + 1
    /\ UNCHANGED <<pc, local>>

\* The call self.fit(X, y) with size_raps left at its default.
FitCall(d, estimator_fails) == FitCallSized(d, estimator_fails, size_raps)

\* The call self.predict(X, alpha, include_last_label, agg_scores).
PredictCall(X, alpha, include_last_label, agg_scores) ==
    /\ calls < MaxCalls
    /\ \E r \in {predict(self, rng, X, alpha, include_last_label, agg_scores)} :
           /\ self' = r.obj
           /\ rng' = r.rng
           /\ ret' = [call |-> "predict", err |-> r.err, y_pred |-> r.y_pred,
                      sets |-> r.sets,
                      args |-> <<X, alpha, include_last_label, agg_scores>>,
                      warnings |-> {}]
    /\ calls' = calls + 1
    /\ UNCHANGED <<fitted_ok, pc, local>>

\* --------------------------------------- the life of one instance: any calls

Init ==
    New({"lac", "score", "aps", "cumulated_score", "raps", "top_k", "naive", "mondrian"},
        {"prefit", "kfold"}, {[kind |-> "int", seed |-> 1]})

Fit ==
    \E d \in {DataExample, DataLabels, DataSix, DataBinary, DataMismatch},
       estimator_fails \in BOOLEAN :
        FitCall(d, estimator_fails)

Predict ==
    \E alpha \in {<<>>, <<<<ONE \div 2>>>>},
       include_last_label \in {"True", "randomized", "maybe"},
       agg_scores \in {"mean", "crossval"} :
        PredictCall(XExample, alpha, include_last_label, agg_scores)

Next == Fit \/ Predict

Spec == Init /\ [][Next]_vars

\* ------------------------ one fit, then predict on every input, then again

PipelineInit ==
    New({"naive", "lac", "aps", "raps", "top_k"}, {"prefit", "kfold"},
        {[kind |-> "int", seed |-> 1], [kind |-> "RandomState", seed |-> 3]})

PipelineFit ==
    /\ calls = 0
    /\ \E d \in {DataExample, DataLabels, DataSix} : FitCall(d, FALSE)

PipelinePredict ==
    /\ calls = 1
    /\ ret.err = "none"
    /\ \E X \in {XExample, XTwo},
          alpha \in AlphaArgs(MaxAlphas),
          include_last_label \in {"True", "False", "randomized"},
          agg_scores \in {"mean", "crossval"} :
           PredictCall(X, alpha, include_last_label, agg_scores)

\* The same call of predict once more.
PipelineRepeat ==
    /\ calls = 2
    /\ PredictCall(ret.args[1], ret.args[2], ret.args[3], ret.args[4])

PipelineNext == PipelineFit \/ PipelinePredict \/ PipelineRepeat

SpecPipeline == PipelineInit /\ [][PipelineNext]_vars

\* ------------- one fit, then two threads inside predict on the same instance

\* Each call of predict takes two steps: lines 1303-1374 end by writing the
\* thresholds to self.quantiles_, lines 1377-1472 read self.quantiles_ back to
\* build the sets.  Whatever else the call computes is local to its thread.

ConcurrentInit ==
    New({"lac", "aps", "raps", "top_k"}, {"prefit", "kfold"}, {[kind |-> "int", seed |-> 1]})

ConcurrentFit ==
    /\ calls = 0
    /\ \E d \in {DataExample, DataSix} : FitCall(d, FALSE)

\* Thread t calls self.predict(X, alpha, include_last_label, agg_scores).
PredictEnter(t, X, alpha, include_last_label, agg_scores) ==
    /\ fitted_ok
    /\ pc[t] = "idle"
    /\ pc' = [pc EXCEPT ![t] = "quantiles"]
    /\ local' = [local EXCEPT ![t] =
                    [X |-> X, alpha |-> alpha, include_last_label |-> include_last_label,
                     agg_scores |-> agg_scores]]
    /\ UNCHANGED <<self, rng, ret, calls, fitted_ok>>

\* Thread t runs predict up to the assignment of self.quantiles_.
PredictQuantiles(t) ==
    /\ pc[t] = "quantiles"
    /\ \E q \in {predict_quantiles(self, local[t].X, local[t].alpha,
                                    local[t].include_last_label, local[t].agg_scores)} :
           /\ self' = q.obj
           /\ pc' = [pc EXCEPT ![t] = IF q.err = "none" THEN "sets" ELSE "done"]
           /\ local' = [local EXCEPT ![t] =
                           local[t] @@ [k_star |-> q.k_star, lambda_star |-> q.lambda_star,
                                        err |-> q.err, y_pred |-> q.y_pred, sets |-> <<>>]]
    /\ UNCHANGED <<rng, ret, calls, fitted_ok>>

\* Thread t builds its sets from self.quantiles_ and returns.
PredictSets(t) ==
    /\ pc[t] = "sets"
    /\ \E s \in {predict_sets(self, rng, local[t].X, Get(local[t].alpha),
                               local[t].include_last_label, local[t].agg_scores,
                               local[t].k_star, local[t].lambda_star)} :
           /\ rng' = s.rng
           /\ local' = [local EXCEPT ![t] =
                           [local[t] EXCEPT !.err = s.err, !.sets = s.sets,
                                            !.y_pred = IF s.err = "none" THEN @ ELSE <<>>]]
    /\ pc' = [pc EXCEPT ![t] = "done"]
    /\ UNCHANGED <<self, ret, calls, fitted_ok>>

ConcurrentNext ==
    \/ ConcurrentFit
    \/ \E t \in Threads :
          \/ \E a \in AlphaValues, agg_scores \in {"mean", "crossval"} :
                 PredictEnter(t, XExample, <<<<a>>>>, "True", agg_scores)
          \/ PredictQuantiles(t)
          \/ PredictSets(t)

SpecConcurrent == ConcurrentInit /\ [][ConcurrentNext]_vars

\* ------------- every kind of cv and of alpha: one fit, then calls of predict

\* The kinds of cv: "prefit", "split", None, an integer, a splitter object such
\* as KFold, an instance of ShuffleSplit.
CvKinds == {"prefit", "split", "None", "int", "kfold", "ShuffleSplit"}

\* The alpha arguments of predict, valid or not: None, 0.5, 0.4, 1.0, 0.0, 0.1
\* (more than the few calibration samples allow), and two levels at once.
ChecksAlphas ==
    {<<>>, <<<<ONE \div 2>>>>, <<<<2 * (ONE \div 5)>>>>, <<<<ONE>>>>, <<<<0>>>>,
     <<<<ONE \div 10>>>>, <<<<ONE \div 2, ONE \div 10>>>>}

ChecksInit ==
    New({"naive", "lac", "aps", "raps", "top_k"}, CvKinds, {[kind |-> "int", seed |-> 1]})

ChecksFit ==
    /\ calls = 0
    /\ \E d \in {DataExample, DataLabels, DataSix, DataBinary, DataMismatch},
          size \in {size_raps, ONE \div 5} :
           FitCallSized(d, FALSE, size)

ChecksPredict ==
    /\ calls >= 1
    /\ \E alpha \in ChecksAlphas, agg_scores \in {"mean", "crossval"} :
           PredictCall(XExample, alpha, "True", agg_scores)

ChecksNext == ChecksFit \/ ChecksPredict

SpecChecks == ChecksInit /\ [][ChecksNext]_vars

\* ------------------------------------------------- mapie.subsample.Subsample

\* Largest number of resamplings of a Subsample.
MaxResamplings == 2

\* Largest number of samples of the X handed to split.
MaxLenX == 2

\* Subsample.__init__.
Subsample(n_resamplings, n_samples, replace, random_state) ==
    [n_resamplings |-> n_resamplings, n_samples |-> n_samples, replace |-> replace,
     random_state |-> random_state]

\* np.arange(n).
arange(n) == array([i \in 1..n |-> i - 1])

\* The sequences of length n over S, and those without a repeated entry.
SeqsOver(S, n) == {array(s) : s \in [1..n -> S]}

DistinctSeqsOver(S, n) ==
    {s \in SeqsOver(S, n) : \A i \in 1..n, j \in 1..n : s[i] = s[j] => i = j}

\* sklearn.utils.resample(indices, replace, n_samples, random_state): whether it
\* raises (more samples asked than there are, without replacement).
resample_raises(indices, replace, n_samples) == ~replace /\ n_samples > Len(indices)

\* sklearn.utils.resample: the arrays it may return, one per state of the
\* generator: n_samples draws with replacement, or the first n_samples entries of
\* a shuffle.
resample(indices, replace, n_samples) ==
    IF replace
    THEN SeqsOver(Range(indices), n_samples)
    ELSE DistinctSeqsOver(Range(indices), n_samples)

\* Every index as a test index: the mutant of test_indices.
test_indices_all(indices, train_index) == Range(indices)

\* set(indices) - set(train_index).
test_indices(indices, train_index) == Range(indices) \ Range(train_index)

\* np.array(list(a set)): its elements once each, in the order the set iterates.
list_of_set(S) == DistinctSeqsOver(S, Cardinality(S))

\* Subsample.get_n_splits.
get_n_splits(obj) == obj.n_resamplings

\* The generator of Subsample.split is the thread 1 of pc and local: pc[1] is
\* "idle" (no generator), "start" (created, no code run yet), "suspended" (at
\* the yield), "exhausted" (the loop ended) or "raised" (resample raised);
\* local[1] holds X, the locals of split, the number of pairs yielded and the
\* last pair.
Generator == 1

SubsampleInit ==
    /\ self \in {Subsample(n_resamplings, n_samples, replace, [kind |-> "int", seed |-> 1]) :
                    n_resamplings \in 0..MaxResamplings,
                    n_samples \in {NoAttr} \cup {Attr(m) : m \in 1..(MaxLenX + 1)},
                    replace \in BOOLEAN}
    /\ rng = 0
    /\ ret = NoCall
    /\ calls = 0
    /\ fitted_ok = FALSE
    /\ NoThreads

\* cv.split(X): the generator is created; its body has not started.
SplitCall ==
    /\ calls < MaxCalls
    /\ pc[Generator] \in {"idle", "exhausted", "raised"}
    /\ \E n \in 1..MaxLenX :
           local' = [local EXCEPT ![Generator] = [X |-> arange(n), yielded |-> 0]]
    /\ pc' = [pc EXCEPT ![Generator] = "start"]
    /\ ret' = [NoCall EXCEPT !.call = "split"]
    /\ calls' = calls + 1
    /\ UNCHANGED <<self, rng, fitted_ok>>

\* next() on the generator: split runs from its start, or from the yield, to the
\* next yield, to the end of the loop or to the exception of resample.
SplitResume ==
    /\ pc[Generator] \in {"start", "suspended"}
    /\ LET frame == local[Generator]
           indices == arange(Len(frame.X))
           n_samples == IF HasAttr(self.n_samples) THEN Get(self.n_samples)
                        ELSE Len(indices)
           k == frame.yielded
       IN  IF ~(k < self.n_resamplings)
           THEN /\ pc' = [pc EXCEPT ![Generator] = "exhausted"]
                /\ local' = local
           ELSE IF resample_raises(indices, self.replace, n_samples)
           THEN /\ pc' = [pc EXCEPT ![Generator] = "raised"]
                /\ local' = local
           ELSE \E train_index \in resample(indices, self.replace, n_samples) :
                \E test_index \in list_of_set(test_indices(indices, train_index)) :
                    /\ pc' = [pc EXCEPT ![Generator] = "suspended"]
                    /\ local' = [local EXCEPT ![Generator] =
                                    [X |-> frame.X, yielded |-> k + 1,
                                     train_index |-> train_index,
                                     test_index |-> test_index]]
    /\ UNCHANGED <<self, rng, ret, calls, fitted_ok>>

\* cv.get_n_splits().
GetNSplitsCall ==
    /\ calls < MaxCalls
    /\ ret' = [NoCall EXCEPT !.call = "get_n_splits", !.y_pred = get_n_splits(self)]
    /\ calls' = calls + 1
    /\ UNCHANGED <<self, rng, fitted_ok, pc, local>>

SubsampleNext == SplitCall \/ SplitResume \/ GetNSplitsCall

SpecSubsample == SubsampleInit /\ [][SubsampleNext]_vars

\* ------------------------------------------------ mapie.futur.split.SplitCP

\* SplitCP is abstract: family names the subclass, which overrides
\* predict_score, predict_best and predict_bounds for regression or for
\* classification.  A sample of X is [value, proba]: what the predictor of a
\* regression subclass and of a classification subclass return for it.

SplitCP_fit_attributes == {"predictor_"}

SplitCP_calib_attributes == {"calibrator_"}

\* SplitCP.__init__ of a subclass.
SplitCP(family, cv, alpha) ==
    [family |-> family, cv |-> cv, alpha |-> alpha, predictor_ |-> NoAttr,
     calibrator_ |-> NoAttr]

\* sklearn's check_is_fitted(self, attributes).
check_is_fitted_attributes(obj, attributes) == \A f \in attributes : HasAttr(obj[f])

\* A numpy array: its shape and its entries along the first axis.
ndarray(shape, data) == [shape |-> shape, data |-> data]

\* SplitCP.predict_score: "usually y_pred in regression and y_pred_proba in
\* classification".
predict_score(obj, X) ==
    IF obj.family = "regression"
    THEN ndarray(<<Len(X)>>, array([i \in 1..Len(X) |-> X[i].value]))
    ELSE ndarray(<<Len(X), Len(X[1].proba)>>, array([i \in 1..Len(X) |-> X[i].proba]))

\* SplitCP.predict_best: "the best prediction, in an array of shape
\* (n_samples, )".
predict_best(obj, y_pred) ==
    IF obj.family = "regression"
    THEN y_pred
    ELSE ndarray(<<y_pred.shape[1]>>,
                 array([i \in 1..Len(y_pred.data) |-> argmax(y_pred.data[i])]))

\* SplitCP.predict_bounds: "bounds (or prediction set in classification)", from
\* the width q the calibrator has fitted.
predict_bounds(obj, X, y_pred) ==
    LET q == Get(obj.calibrator_).q
    IN  IF obj.family = "regression"
        THEN array([i \in 1..Len(y_pred.data) |->
                       <<y_pred.data[i] - q, y_pred.data[i] + q>>])
        ELSE array([i \in 1..Len(y_pred.data) |-> at_least(y_pred.data[i], ONE - q)])

\* SplitCP.fit_predictor: the fitted predictor, or the one given when cv is
\* "prefit".
fit_predictor(obj) ==
    [obj |-> [obj EXCEPT !.predictor_ = Attr([fitted |-> TRUE])], err |-> "none",
     warnings |-> {}]

\* SplitCP.fit_calibrator: q stands for what calibrator.fit draws from the
\* calibration data.
fit_calibrator(obj, q) ==
    IF ~check_is_fitted_attributes(obj, SplitCP_fit_attributes)
    THEN [obj |-> obj, err |-> "NotFitted", warnings |-> {}]
    ELSE IF ~HasAttr(obj.alpha)
    THEN [obj |-> obj, err |-> "none", warnings |-> {"NoCalibration"}]
    ELSE [obj |-> [obj EXCEPT !.calibrator_ = Attr([q |-> q])], err |-> "none",
          warnings |-> {}]

\* SplitCP.fit.
SplitCP_fit(obj, q) == fit_calibrator(fit_predictor(obj).obj, q)

\* SplitCP.predict: result is <<y_pred>> (one array) or <<y_pred, y_bounds>>.
SplitCP_predict(obj, X) ==
    LET y_pred == predict_score(obj, X)
    IN  IF ~check_is_fitted_attributes(obj, SplitCP_fit_attributes)
        THEN [err |-> "NotFitted", result |-> <<>>]
        ELSE IF ~HasAttr(obj.alpha)
        THEN [err |-> "none", result |-> <<y_pred>>]
        ELSE IF ~check_is_fitted_attributes(obj, SplitCP_calib_attributes)
        THEN [err |-> "NotFitted", result |-> <<>>]
        ELSE [err |-> "none",
              result |-> <<predict_best(obj, y_pred), predict_bounds(obj, X, y_pred)>>]

\* The test sets handed to SplitCP.predict.
XSplitCP ==
    {<<[value |-> 3, proba |-> Row(<<2, 5, 3>>)]>>,
     <<[value |-> 0, proba |-> Row(<<7, 2, 1>>)], [value |-> 5, proba |-> Row(<<1, 1, 8>>)]>>,
     <<[value |-> 1, proba |-> Row(<<4, 4, 2>>)], [value |-> 1, proba |-> Row(<<0, 5, 5>>)]>>}

\* The levels of SplitCP: None, 0.1 and 0.2.
SplitCPAlphas == {NoAttr, Attr(ONE \div 10), Attr(ONE \div 5)}

\* The widths a calibrator may fit.
CalibratorWidths == {ONE \div 5, ONE \div 2}

SplitCPInit ==
    /\ self \in {SplitCP(family, cv, alpha) :
                    family \in {"regression", "classification"},
                    cv \in {"prefit", "split"}, alpha \in SplitCPAlphas}
    /\ rng = 0
    /\ ret = NoCall
    /\ calls = 0
    /\ fitted_ok = FALSE
    /\ NoThreads

\* One call of a fitting method, r being what it does.
SplitCPFitted(call, r) ==
    /\ calls < MaxCalls
    /\ self' = r.obj
    /\ ret' = [NoCall EXCEPT !.call = call, !.err = r.err, !.warnings = r.warnings]
    /\ calls' = calls + 1
    /\ UNCHANGED <<rng, fitted_ok, pc, local>>

SplitCPFitPredictor == SplitCPFitted("fit_predictor", fit_predictor(self))

SplitCPFitCalibrator ==
    \E q \in CalibratorWidths : SplitCPFitted("fit_calibrator", fit_calibrator(self, q))

SplitCPFit == \E q \in CalibratorWidths : SplitCPFitted("fit", SplitCP_fit(self, q))

\* BaseEstimator.set_params(alpha=...), or an assignment of the attribute.
SplitCPSetAlpha ==
    /\ calls < MaxCalls
    /\ \E alpha \in SplitCPAlphas \ {self.alpha} : self' = [self EXCEPT !.alpha = alpha]
    /\ ret' = [NoCall EXCEPT !.call = "set_params"]
    /\ calls' = calls + 1
    /\ UNCHANGED <<rng, fitted_ok, pc, local>>

SplitCPPredict ==
    /\ calls < MaxCalls
    /\ \E X \in XSplitCP :
       \E r \in {SplitCP_predict(self, X)} :
           ret' = [call |-> "predict", err |-> r.err,
                   y_pred |-> IF Len(r.result) >= 1 THEN Attr(r.result[1]) ELSE NoAttr,
                   sets |-> IF Len(r.result) = 2 THEN Attr(r.result[2]) ELSE NoAttr,
                   args |-> <<X>>, warnings |-> {}]
    /\ calls' = calls + 1
    /\ UNCHANGED <<self, rng, fitted_ok, pc, local>>

SplitCPNext ==
    \/ SplitCPFitPredictor
    \/ SplitCPFitCalibrator
    \/ SplitCPFit
    \/ SplitCPSetAlpha
    \/ SplitCPPredict

SpecSplitCP == SplitCPInit /\ [][SplitCPNext]_vars

\* ------------------- the assembly of one cumulated set, on every input

\* predict, lines 1396-1432, for one test row and the thresholds of one or two
\* alpha, in the mean/prefit regime: the inputs are drawn from AssembleRows,
\* AssembleThresholds, the regularisations of "raps" and AssembleUs; ret holds
\* what _get_last_included_proba returned, the sets before the tie-breaking
\* and the sets predict returns.

AssembleRows ==
    {Row(<<5, 3, 2>>), Row(<<4, 4, 2>>), Row(<<2, 4, 4>>), Row(<<6, 4, 0>>),
     Row(<<0, 5, 5>>), Row(<<0, 1, 9>>), Row(<<0, 10, 0>>)}

AssembleThresholds ==
    {0, 3 * (ONE \div 10), 4 * (ONE \div 10), ONE \div 2, 7 * (ONE \div 10),
     8 * (ONE \div 10), ONE, ONE + ONE \div 10}

\* lambda_star and k_star of one alpha; 0 and 0 when the method is not "raps".
AssembleRegularisations(method) ==
    IF method = "raps"
    THEN {[lambda_star |-> l, k_star |-> k] : l \in {ONE \div 1000, ONE \div 2}, k \in {1, 2}}
    ELSE {[lambda_star |-> 0, k_star |-> 0]}

AssembleUs == {0, 2 * (ONE \div 5), ONE \div 2, 9 * (ONE \div 10)}

AssembleInit ==
    /\ self \in {[method |-> method] : method \in {"naive", "aps", "raps"}}
    /\ rng = 0
    /\ ret = NoCall
    /\ calls = 0
    /\ fitted_ok = FALSE
    /\ NoThreads

AssembleOn(rows) ==
    /\ calls = 0
    /\ \E y_pred_proba \in rows,
          t1 \in AssembleThresholds, t2 \in AssembleThresholds,
          include_last_label \in {"True", "False", "randomized"},
          reg \in AssembleRegularisations(self.method),
          u \in AssembleUs :
           /\ t1 <= t2
           /\ \E thresholds \in {IF t1 = t2 THEN <<t1>> ELSE <<t1, t2>>} :
              \E last \in {array([j \in 1..Len(thresholds) |->
                               get_last_included_proba(self.method, y_pred_proba,
                                   thresholds[j], include_last_label,
                                   reg.lambda_star, reg.k_star)])} :
                  ret' = [call |-> "assemble",
                          err |-> IF include_last_label = "randomized" /\ self.method = "naive"
                                  THEN "TypeError" ELSE "none",
                          args |-> <<y_pred_proba, thresholds, include_last_label,
                                     reg.lambda_star, reg.k_star, u>>,
                          last |-> last,
                          before |-> array([j \in 1..Len(thresholds) |->
                                        at_least(y_pred_proba, last[j].y_pred_proba_last)]),
                          sets |-> IF include_last_label = "randomized" /\ self.method = "naive"
                                   THEN <<>>
                                   ELSE array([j \in 1..Len(thresholds) |->
                                            cumulated_prediction_set(self.method,
                                                y_pred_proba, thresholds[j],
                                                include_last_label, reg.lambda_star,
                                                reg.k_star, u)])]
    /\ calls' = 1
    /\ UNCHANGED <<self, rng, fitted_ok, pc, local>>

Assemble == AssembleOn(AssembleRows)

AssembleNext == Assemble

SpecAssemble == AssembleInit /\ [][AssembleNext]_vars

\* The same step on rows that hold a class of probability 0, at every position,
\* and rows whose smallest other probability is EPSILON.
AssembleZeroRows ==
    {Row(<<6, 4, 0>>), Row(<<0, 5, 5>>), Row(<<0, 10, 0>>), Row(<<3, 0, 7>>),
     <<0, ONE - EPSILON, EPSILON>>, <<EPSILON, 0, ONE - EPSILON>>,
     <<ONE - EPSILON, EPSILON, 0>>, <<0, ONE - 2 * EPSILON, EPSILON, EPSILON>>}

AssembleZero == AssembleOn(AssembleZeroRows)

AssembleZeroNext == AssembleZero

SpecAssembleZero == AssembleInit /\ [][AssembleZeroNext]_vars

\* ---------------------------------------------- the lambda search on its own

\* The probabilities of the held-out samples the search is run on.
LambdaRows == {Row(<<8, 1, 1>>), Row(<<5, 3, 2>>), Row(<<4, 3, 3>>)}

\* The alpha arrays of the search.
LambdaAlphas == {<<ONE \div 2>>, <<ONE \div 5, ONE \div 2>>, <<4 * (ONE \div 5)>>}

LambdaInit ==
    /\ self = [method |-> "raps"]
    /\ rng = 0
    /\ ret = NoCall
    /\ calls = 0
    /\ fitted_ok = FALSE
    /\ NoThreads

\* One run of _find_lambda_star on two held-out samples; sizes[c][j] is the
\* size _update_size_and_lambda computes for candidate c and alpha j.
FindLambdaStar ==
    /\ calls = 0
    /\ \E r1 \in LambdaRows, r2 \in LambdaRows, y1 \in 0..2, y2 \in 0..2,
          alpha_np \in LambdaAlphas,
          include_last_label \in {"True", "False"},
          k1 \in {1, 2}, k2 \in {1, 2} :
         LET y_pred_proba_raps == <<r1, r2>>
             y_raps_no_enc == <<y1, y2>>
             k_star == IF Len(alpha_np) = 1 THEN <<k1>> ELSE <<k1, k2>>
         IN  /\ Len(alpha_np) = 1 => k2 = 1
             /\ ret' = [call |-> "find_lambda_star", err |-> "none",
                        args |-> <<y_pred_proba_raps, y_raps_no_enc, alpha_np,
                                   include_last_label, k_star>>,
                        sizes |-> array([c \in 1..Len(lambda_candidates) |->
                            array([j \in 1..Len(alpha_np) |->
                                mean_width_score_n(
                                    raps_trial_sets(y_pred_proba_raps, y_raps_no_enc,
                                                    <<0, 1, 2>>, alpha_np, include_last_label,
                                                    k_star, lambda_candidates[c])[j])])]),
                        lambda_star |-> find_lambda_star(y_pred_proba_raps, y_raps_no_enc,
                                                         <<0, 1, 2>>, alpha_np,
                                                         include_last_label, k_star)]
    /\ calls' = 1
    /\ UNCHANGED <<self, rng, fitted_ok, pc, local>>

LambdaNext == FindLambdaStar

SpecLambda == LambdaInit /\ [][LambdaNext]_vars

\* ------------------------------------------------ fit with the RAPS split

\* The permutations ShuffleSplit may draw for the four samples of DataLabels.
RapsPerms == DistinctSeqsOver(1..4, 4)

\* The sample_weight and groups arguments of fit: None, or one value per sample.
RapsSampleWeights == {<<>>, <<1, 2, 3, 4>>}

RapsGroups == {<<>>, <<11, 12, 13, 14>>}

\* The size_raps arguments of fit: one, two or three of four samples held out.
RapsSizes == {ONE \div 5, ONE \div 2, 3 * (ONE \div 4)}

RapsInit ==
    New({"raps"}, {"prefit", "split"},
        {[kind |-> "int", seed |-> 1], [kind |-> "RandomState", seed |-> 3]})

\* The call self.fit(X, y, sample_weight, groups, size_raps) with method "raps"
\* on DataLabels; passed holds what fit hands to the ensemble estimator's fit.
RapsFit ==
    /\ calls = 0
    /\ \E perm \in RapsPerms, sample_weight \in RapsSampleWeights, groups \in RapsGroups,
          size \in RapsSizes :
          \E r \in {fit(self, rng, DataLabels, size, perm, FALSE, 0)},
             split \in {split_raps_data(Len(DataLabels.y), perm, size, sample_weight, groups)} :
              /\ self' = r.obj
              /\ rng' = r.rng
              /\ ret' = [call |-> "fit", err |-> r.err, y_pred |-> <<>>, sets |-> <<>>,
                         args |-> <<DataLabels, FALSE, size, sample_weight, groups>>,
                         passed |-> [index |-> split.train_raps_index,
                                     sample_weight |-> split.sample_weight,
                                     groups |-> split.groups],
                         warnings |-> r.warnings]
              /\ fitted_ok' = (r.err = "none")
    /\ calls' = 1
    /\ UNCHANGED <<pc, local>>

RapsNext == RapsFit

SpecRapsFit == RapsInit /\ [][RapsNext]_vars

\* ------------------------------- one fit, then calls of predict that differ

\* The alpha arguments of the calls: 0.5, 0.4, and both.
HistoryAlphas ==
    {<<<<ONE \div 2>>>>, <<<<2 * (ONE \div 5)>>>>, <<<<2 * (ONE \div 5), ONE \div 2>>>>}

HistoryInit ==
    New({"naive", "lac", "aps", "raps", "top_k"}, {"prefit", "kfold"},
        {[kind |-> "int", seed |-> 1]})

HistoryFit ==
    /\ calls = 0
    /\ FitCall(DataSix, FALSE)

HistoryPredict ==
    /\ calls >= 1
    /\ \E X \in {XExample, XTwo},
          alpha \in HistoryAlphas,
          include_last_label \in {"True", "False"},
          agg_scores \in {"mean", "crossval"} :
           PredictCall(X, alpha, include_last_label, agg_scores)

HistoryNext == HistoryFit \/ HistoryPredict

SpecHistory == HistoryInit /\ [][HistoryNext]_vars

\* ------------------------------- SplitCP.fit: the indices of the two splits

\* The number of samples of the X handed to SplitCP.fit.
SplitCPSamples == 4

\* The permutation a generator seeded with an integer draws for n samples: a
\* fixed function of the seed.
seeded_permutation(seed, n) == array([i \in 1..n |-> ((i + seed - 1) % n) + 1])

\* The permutations the splitter may draw at the two calls of split that fit
\* makes: with an integer random_state each call seeds a new generator, with
\* None (the process-wide generator) or a RandomState instance (which advances)
\* each call draws again.  A PredefinedSplit draws nothing.
split_draws(cv, n) ==
    IF cv.kind = "PredefinedSplit" THEN {<<<<>>, <<>>>>}
    ELSE IF cv.random_state.kind = "int"
    THEN {<<seeded_permutation(cv.random_state.seed, n),
            seeded_permutation(cv.random_state.seed, n)>>}
    ELSE {<<p1, p2>> : p1 \in DistinctSeqsOver(1..n, n), p2 \in DistinctSeqsOver(1..n, n)}

\* list(self.cv.split(X, y, groups))[0] for the permutation drawn: ShuffleSplit
\* takes the first n_test entries as test indices and the others as train
\* indices; PredefinedSplit takes the samples of fold 0 as test indices.
cv_split(cv, perm, n) ==
    IF cv.kind = "PredefinedSplit"
    THEN [train_index |-> SortedSeqOf({i \in 1..n : cv.test_fold[i] # 0}),
          test_index |-> SortedSeqOf({i \in 1..n : cv.test_fold[i] = 0})]
    ELSE [train_index |-> SubSeq(perm, n_test(n, cv.test_size) + 1, n),
          test_index |-> SubSeq(perm, 1, n_test(n, cv.test_size))]

\* The cv of a SplitCP: "prefit", a ShuffleSplit of one split (what _check_cv
\* makes of None and "split", with the random_state of the instance) or a
\* PredefinedSplit.
SplitCPCvs ==
    {[kind |-> "prefit"]}
    \cup {[kind |-> "ShuffleSplit", test_size |-> size, random_state |-> random_state] :
             size \in {ONE \div 4, ONE \div 2},
             random_state \in {[kind |-> "int", seed |-> 0], [kind |-> "int", seed |-> 1],
                               [kind |-> "None", seed |-> 0],
                               [kind |-> "RandomState", seed |-> 3]}}
    \cup {[kind |-> "PredefinedSplit", test_fold |-> test_fold] :
             test_fold \in {<<-1, -1, 0, 0>>, <<0, -1, 0, -1>>}}

SplitCPIndicesInit ==
    /\ self \in {[cv |-> cv] : cv \in SplitCPCvs}
    /\ rng = 0
    /\ ret = NoCall
    /\ calls = 0
    /\ fitted_ok = FALSE
    /\ NoThreads

\* SplitCP.fit(X, y): fit_predictor trains the predictor on the train indices
\* of one call of self.cv.split, then fit_calibrator computes the conformity
\* scores on the calibration indices of another call of self.cv.split.  With cv
\* "prefit" nothing is trained and every sample is a calibration sample.
SplitCPFitIndices ==
    /\ calls = 0
    /\ \E draws \in split_draws(IF self.cv.kind = "prefit"
                               THEN [kind |-> "PredefinedSplit"] ELSE self.cv,
                               SplitCPSamples) :
          ret' = [call |-> "fit", err |-> "none", args |-> <<SplitCPSamples>>,
                  fit_predictor |->
                      IF self.cv.kind = "prefit" THEN [train_index |-> <<>>]
                      ELSE [train_index |->
                                cv_split(self.cv, draws[1], SplitCPSamples).train_index],
                  fit_calibrator |->
                      IF self.cv.kind = "prefit"
                      THEN [train_index |-> <<>>,
                            calib_index |-> array([i \in 1..SplitCPSamples |-> i])]
                      ELSE [train_index |->
                                cv_split(self.cv, draws[2], SplitCPSamples).train_index,
                            calib_index |->
                                cv_split(self.cv, draws[2], SplitCPSamples).test_index]]
    /\ calls' = 1
    /\ UNCHANGED <<self, rng, fitted_ok, pc, local>>

SplitCPIndicesNext == SplitCPFitIndices

SpecSplitCPIndices == SplitCPIndicesInit /\ [][SplitCPIndicesNext]_vars

\* --------------------------------------------- mapie.subsample.BlockBootstrap

\* Largest number of samples of the X handed to BlockBootstrap.split.
BlockMaxLenX == 3

\* BlockBootstrap.__init__ (length and n_blocks: NoAttr for None).
BlockBootstrap(n_resamplings, length, n_blocks, overlapping, random_state) ==
    [n_resamplings |-> n_resamplings, length |-> length, n_blocks |-> n_blocks,
     overlapping |-> overlapping, random_state |-> random_state]

\* split: the length of the blocks for n samples.
block_length(obj, n) ==
    IF HasAttr(obj.length) THEN Get(obj.length) ELSE n \div Get(obj.n_blocks)

\* split: the number of blocks drawn for n samples.
block_n_blocks(obj, n) ==
    IF HasAttr(obj.n_blocks) THEN Get(obj.n_blocks) ELSE (n \div block_length(obj, n)) + 1

\* split: the indices the blocks and the test indices are taken from.  Without
\* overlapping the first len(indices) % length of them are dropped.
block_indices_kept(obj, n) ==
    IF obj.overlapping THEN arange(n)
    ELSE SubSeq(arange(n), (n % block_length(obj, n)) + 1, n)

\* split: the blocks, sliding_window_view(indices, length) with overlapping,
\* np.array_split of the kept indices in len // length sections without.
blocks_of(obj, n) ==
    LET length == block_length(obj, n)
        indices == block_indices_kept(obj, n)
    IN  IF obj.overlapping
        THEN array([b \in 1..(n - length + 1) |-> SubSeq(indices, b, b + length - 1)])
        ELSE array([b \in 1..(Len(indices) \div length) |->
                       SubSeq(indices, (b - 1) * length + 1, b * length)])

\* np.concatenate([blocks[k] for k in block_indices]).
RECURSIVE concatenate_blocks(_, _)
concatenate_blocks(blocks, block_indices) ==
    IF block_indices = <<>> THEN <<>>
    ELSE blocks[Head(block_indices)] \o concatenate_blocks(blocks, Tail(block_indices))

BlockBootstrapInit ==
    /\ self \in {BlockBootstrap(n_resamplings, length, n_blocks, overlapping,
                                [kind |-> "int", seed |-> 1]) :
                    n_resamplings \in 1..MaxResamplings,
                    length \in {NoAttr} \cup {Attr(m) : m \in 1..(BlockMaxLenX + 1)},
                    n_blocks \in {NoAttr, Attr(1), Attr(2)},
                    overlapping \in BOOLEAN}
    /\ HasAttr(self.length) \/ HasAttr(self.n_blocks)
    /\ rng = 0
    /\ ret = NoCall
    /\ calls = 0
    /\ fitted_ok = FALSE
    /\ NoThreads

\* cv.split(X): the generator is created; its body has not started.  X has the
\* two samples or more that give a block of one sample at least.
BlockSplitCall ==
    /\ calls < MaxCalls
    /\ pc[Generator] \in {"idle", "exhausted", "raised"}
    /\ \E n \in 2..BlockMaxLenX :
           local' = [local EXCEPT ![Generator] = [X |-> arange(n), yielded |-> 0]]
    /\ pc' = [pc EXCEPT ![Generator] = "start"]
    /\ ret' = [NoCall EXCEPT !.call = "split"]
    /\ calls' = calls + 1
    /\ UNCHANGED <<self, rng, fitted_ok>>

\* next() on the generator: split runs from its start, or from the yield, to the
\* next yield, to the end of the loop or to the ValueError of a block longer
\* than X.
BlockSplitResume ==
    /\ pc[Generator] \in {"start", "suspended"}
    /\ LET frame == local[Generator]
           n == Len(frame.X)
           k == frame.yielded
       IN  IF k = 0 /\ block_length(self, n) > n
           THEN /\ pc' = [pc EXCEPT ![Generator] = "raised"]
                /\ local' = local
           ELSE IF ~(k < self.n_resamplings)
           THEN /\ pc' = [pc EXCEPT ![Generator] = "exhausted"]
                /\ local' = local
           ELSE \E blocks \in {blocks_of(self, n)} :
                \E block_indices \in SeqsOver(1..Len(blocks), block_n_blocks(self, n)) :
                \E train_index \in {concatenate_blocks(blocks, block_indices)} :
                \E test_index \in list_of_set(test_indices(block_indices_kept(self, n),
                                                           train_index)) :
                    /\ pc' = [pc EXCEPT ![Generator] = "suspended"]
                    /\ local' = [local EXCEPT ![Generator] =
                                    [X |-> frame.X, yielded |-> k + 1,
                                     train_index |-> train_index,
                                     test_index |-> test_index]]
    /\ UNCHANGED <<self, rng, ret, calls, fitted_ok>>

BlockBootstrapNext == BlockSplitCall \/ BlockSplitResume

SpecBlockBootstrap == BlockBootstrapInit /\ [][BlockBootstrapNext]_vars

\* ------------------------------------------------------------------ claims

\* The step is a call of fit or predict.
IsCall(call) == calls' = calls + 1 /\ ret'.call = call

\* The fitted-state fields the failure contract of fit names.
ContractFields ==
    {"n_features_in_", "n_classes_", "classes_", "label_encoder_", "conformity_scores_",
     "X_raps", "y_raps", "y_raps_no_enc", "y_pred_proba_raps", "position_raps"}

\* C1: a call of fit that raises leaves every fitted-state field of the instance
\* (n_features_in_, n_classes_, classes_, label_encoder_, conformity_scores_, the
\* RAPS held-out data) with the value it had before the call.
C1_FailedFitKeepsFittedState ==
    [][(IsCall("fit") /\ ret'.err # "none")
          => \A f \in ContractFields : self'[f] = self[f]]_vars

\* The arguments of the last call of predict pass _check_include_last_label and
\* check_alpha.
ValidPredictArguments ==
    /\ ret.args[3] \in {"True", "False", "randomized"}
    /\ ret.args[2] # <<>> =>
          \A j \in 1..Len(ret.args[2][1]) :
              0 < ret.args[2][1][j] /\ ret.args[2][1][j] < ONE

\* predict returned nothing.
NoResult == ret.y_pred = <<>> /\ ret.sets = <<>>

\* C2 as stated: predict returns a result only after a call of fit has
\* returned, and on an instance on which no fit has returned it raises the
\* not-fitted error and returns nothing.
C2_NotFittedErrorWhenUnfit ==
    ret.call = "predict" =>
        /\ ret.err = "none" => fitted_ok
        /\ ~fitted_ok => ret.err = "NotFitted" /\ NoResult

\* C2 amended: predict returns a result only after a call of fit has returned;
\* on an instance on which no fit has returned it raises an error and returns
\* nothing, and the error is the not-fitted error whenever include_last_label
\* and alpha are valid.
C2_ErrorWhenUnfit ==
    ret.call = "predict" =>
        /\ ret.err = "none" => fitted_ok
        /\ ~fitted_ok =>
              /\ ret.err # "none" /\ NoResult
              /\ ValidPredictArguments => ret.err = "NotFitted"

\* predict was called with valid arguments after a call of fit that raised
\* in the ensemble estimator, no fit having returned.
C2_Witness ==
    /\ ret.call = "predict"
    /\ ~fitted_ok
    /\ HasAttr(self.estimator_)
    /\ ValidPredictArguments
    /\ ret.err = "NotFitted"

\* C4: every call of predict leaves the fitted state produced by fit as it
\* was: conformity_scores_, cutoff, classes_, label_encoder_, the RAPS held-out
\* probabilities and positions and every other attribute fit sets.
C4_PredictKeepsFittedState ==
    [][IsCall("predict") => fitted_state(self') = fitted_state(self)]_vars

\* predict with method "raps" has regularised the conformity scores and
\* returned prediction sets.
C4_Witness ==
    /\ ret.call = "predict"
    /\ ret.err = "none"
    /\ self.method = "raps"
    /\ HasAttr(self.conformity_scores_regularized)
    /\ ret.sets # <<>>

\* What the call of thread t returns when no other call runs on the instance.
Alone(t) ==
    predict(self, rng, local[t].X, local[t].alpha, local[t].include_last_label,
            local[t].agg_scores)

\* C3: when two calls of predict with different alpha are interleaved on one
\* fitted instance, each returns what it would return running alone: the same
\* outcome, the same point predictions and the same prediction sets.
C3_InterleavedPredictReentrant ==
    \A t \in Threads, other \in Threads :
        (/\ pc[t] = "done"
         /\ pc[other] # "idle"
         /\ local[other].alpha # local[t].alpha)
            => /\ local[t].err = Alone(t).err
               /\ local[t].y_pred = Alone(t).y_pred
               /\ local[t].sets = Alone(t).sets

\* The last call was predict, it returned prediction sets, and alpha was given.
ReturnedSets == ret.call = "predict" /\ ret.err = "none" /\ ret.args[2] # <<>>

\* C5: in one call of predict with several alpha, for every method, regime and
\* sample, the set at a smaller alpha has at least as many classes as the set at
\* a larger alpha.
C5_SmallerAlphaLargerSet ==
    ReturnedSets =>
        \A i \in 1..Len(ret.sets) :
            \A j1 \in 1..Len(ret.sets[i]), j2 \in 1..Len(ret.sets[i]) :
                ret.args[2][1][j1] < ret.args[2][1][j2]
                    => Cardinality(ret.sets[i][j1]) >= Cardinality(ret.sets[i][j2])

\* C6: a call of predict with include_last_label "randomized" on an instance
\* seeded with an integer, repeated with the same test input and alpha on the
\* same fitted state, returns the same prediction sets as the first call.
C6_SameSeedSameSets ==
    [][(/\ IsCall("predict")
        /\ ret.call = "predict"
        /\ ret'.args = ret.args
        /\ ret.args[3] = "randomized"
        /\ self.random_state.kind = "int"
        /\ fitted_state(self') = fitted_state(self))
          => /\ ret'.err = ret.err
             /\ ret'.y_pred = ret.y_pred
             /\ ret'.sets = ret.sets]_vars

\* predict with tie-breaking has been called twice with the same arguments on
\* an instance seeded with an integer, and the tie-breaking has removed a label
\* that include_last_label=True keeps.
C6_Witness ==
    /\ calls = 3
    /\ ReturnedSets
    /\ ret.args[3] = "randomized"
    /\ self.random_state.kind = "int"
    /\ self.method \in {"aps", "raps"}
    /\ ret.sets # predict(self, rng, ret.args[1], ret.args[2], "True", ret.args[4]).sets

\* The last call was fit and it returned.
Fitted == ret.call = "fit" /\ ret.err = "none"

\* The 1-indexed column of label in the classes of the instance.
Column(label) == CHOOSE c \in 1..Len(Get(self.classes_)) : Get(self.classes_)[c] = label

\* C7: after fit with method "lac" or "score" there is one conformity score per
\* calibration sample, in calibration order, and the score of sample i is
\* 1 - P[i, y_i].
C7_LacScoreIsOneMinusTrueProba ==
    (Fitted /\ self.method \in {"lac", "score"}) =>
        LET d == ret.args[1]
            conformity_scores_ == Get(self.conformity_scores_)
        IN  /\ Len(conformity_scores_) = Len(d.y)
            /\ \A i \in 1..Len(d.y) :
                   conformity_scores_[i] = ONE - d.proba[i][Column(d.y[i])]

\* fit with method "lac" or "score" has returned on labels that are not their
\* own codes, and two samples have different scores.
C7_Witness ==
    /\ Fitted
    /\ self.method \in {"lac", "score"}
    /\ ret.args[1].y = <<20, 10, 30, 10>>
    /\ Get(self.conformity_scores_)[1] # Get(self.conformity_scores_)[2]

\* The calibration probabilities and encoded labels the conformity scores of
\* the last fit were computed from.
Calibration == Get(self.estimator_)

\* The number of classes of row that are more probable than class c (0-indexed).
MoreProbable(row, c) == Cardinality({e \in Classes(row) : row[e + 1] > row[c + 1]})

\* The number of classes of row that are as probable as class c, c included.
AsProbable(row, c) == Cardinality({e \in Classes(row) : row[e + 1] = row[c + 1]})

\* The last call was fit with method "top_k" and it returned.
FittedTopK == Fitted /\ self.method = "top_k"

\* C8 as stated: after fit with method "top_k" the conformity score of a
\* calibration sample is the 1-indexed rank of its true label in decreasing
\* order of probability: 1 when the true label is the most probable class, K
\* when it is the least probable.
C8_TopKScoreIsRankFromOne ==
    FittedTopK =>
        \A i \in 1..Len(Calibration.y_enc) :
            LET row == Calibration.y_pred_proba[i]
                y == Calibration.y_enc[i]
                score == Get(self.conformity_scores_)[i]
            IN  /\ MoreProbable(row, y) + 1 <= score
                /\ score <= MoreProbable(row, y) + AsProbable(row, y)

\* C8 amended: the conformity score is the 0-indexed rank of the true label in
\* decreasing order of probability: 0 when the true label is the most probable
\* class, K-1 when it is the least probable.
C8_TopKScoreIsRankFromZero ==
    FittedTopK =>
        /\ Len(Get(self.conformity_scores_)) = Len(Calibration.y_enc)
        /\ \A i \in 1..Len(Calibration.y_enc) :
               LET row == Calibration.y_pred_proba[i]
                   y == Calibration.y_enc[i]
                   score == Get(self.conformity_scores_)[i]
               IN  /\ MoreProbable(row, y) <= score
                   /\ score <= MoreProbable(row, y) + AsProbable(row, y) - 1

\* fit with method "top_k" has returned on data in which one true label is the
\* only most probable class of its row (score 0) and another the only least
\* probable class of its row (score K-1).
C8_Witness ==
    /\ FittedTopK
    /\ \E i \in 1..Len(Calibration.y_enc) :
           /\ MoreProbable(Calibration.y_pred_proba[i], Calibration.y_enc[i]) = 0
           /\ AsProbable(Calibration.y_pred_proba[i], Calibration.y_enc[i]) = 1
           /\ Get(self.conformity_scores_)[i] = 0
    /\ \E i \in 1..Len(Calibration.y_enc) :
           /\ MoreProbable(Calibration.y_pred_proba[i], Calibration.y_enc[i])
                  = Len(Calibration.y_pred_proba[i]) - 1
           /\ Get(self.conformity_scores_)[i] = Len(Calibration.y_pred_proba[i]) - 1

\* The probability calibration sample i gives to its true label.
TrueProba(i) == Calibration.y_pred_proba[i][Calibration.y_enc[i] + 1]

\* The sum of the rank largest probabilities of calibration sample i, for a
\* rank at which the true label of the sample can stand.
MassUpTo(i, rank) ==
    LET row == Calibration.y_pred_proba[i]
        larger == {e \in Classes(row) : row[e + 1] > TrueProba(i)}
    IN  SumSeq(array([e \in 1..Len(row) |-> IF (e - 1) \in larger THEN row[e] ELSE 0]))
        + (rank - Cardinality(larger)) * TrueProba(i)

\* The last call was fit with a cumulated-score method and it returned.
FittedCumulated == Fitted /\ self.method \in {"aps", "cumulated_score", "raps"}

\* C9: after fit with method "aps", "cumulated_score" or "raps", the stored
\* cutoff of calibration sample i is the 1-indexed rank of its true label in
\* decreasing order of probability, and its conformity score is the sum of the
\* probabilities up to and including that rank minus U_i * P[i, y_i] for one
\* U_i in [0, 1); the score lies between that sum minus P[i, y_i] and that sum.
C9_CumulatedScoreAndCutoff ==
    FittedCumulated =>
        /\ Len(Get(self.conformity_scores_)) = Len(Calibration.y_enc)
        /\ Len(Get(self.cutoff)) = Len(Calibration.y_enc)
        /\ \A i \in 1..Len(Calibration.y_enc) :
               LET row == Calibration.y_pred_proba[i]
                   y == Calibration.y_enc[i]
                   score == Get(self.conformity_scores_)[i]
                   cutoff == Get(self.cutoff)[i]
               IN  /\ MoreProbable(row, y) + 1 <= cutoff
                   /\ cutoff <= MoreProbable(row, y) + AsProbable(row, y)
                   /\ \E U \in 0..(ONE - 1) :
                          score = MassUpTo(i, cutoff) - (U * TrueProba(i)) \div ONE
                   /\ MassUpTo(i, cutoff) - TrueProba(i) <= score
                   /\ score <= MassUpTo(i, cutoff)

\* fit with a cumulated-score method has returned, and a calibration sample
\* whose true label is not the first in decreasing order has a score strictly
\* between the two bounds.
C9_Witness ==
    /\ FittedCumulated
    /\ \E i \in 1..Len(Calibration.y_enc) :
           /\ Get(self.cutoff)[i] > 1
           /\ MassUpTo(i, Get(self.cutoff)[i]) - TrueProba(i) < Get(self.conformity_scores_)[i]
           /\ Get(self.conformity_scores_)[i] < MassUpTo(i, Get(self.cutoff)[i])

\* The corrected rank of the quantile of n scores at level alpha: the least
\* integer that is at least (n + 1)(1 - alpha), and n at most.
CorrectedRank(n, alpha) ==
    CHOOSE r \in 1..n :
        /\ r * ONE >= (n + 1) * (ONE - alpha) \/ r = n
        /\ \A m \in 1..(r - 1) : m * ONE < (n + 1) * (ONE - alpha)

\* threshold is the score that has the corrected rank among scores in
\* increasing order.
IsCorrectedQuantile(threshold, scores, alpha) ==
    LET r == CorrectedRank(Len(scores), alpha)
    IN  /\ \E i \in 1..Len(scores) : scores[i] = threshold
        /\ Cardinality({i \in 1..Len(scores) : scores[i] < threshold}) < r
        /\ r <= Cardinality({i \in 1..Len(scores) : scores[i] <= threshold})

\* The last call of predict returned sets of method "lac" in the mean regime.
ReturnedLacMeanSets ==
    ReturnedSets /\ self.method = "lac" /\ mean_regime(self, ret.args[4])

\* The last call of predict is the one of the worked example: alpha = 0.5 and
\* the test row [0.5, 0.3, 0.2] after a fit on its calibration data.
WorkedExample ==
    /\ ReturnedLacMeanSets
    /\ Calibration.y_pred_proba = DataExample.proba
    /\ Calibration.y_enc = <<0, 1, 2>>
    /\ ret.args[1] = <<[mean |-> Row(<<5, 3, 2>>), folds |-> XExample[1].folds]>>
    /\ ret.args[2] = <<<<ONE \div 2>>>>

\* C10: with method "lac" in the mean regime, class c is in the set of a test
\* sample at level alpha iff its probability is at least 1 - threshold (within
\* EPSILON), threshold being the corrected quantile of the calibration scores at
\* alpha; in the worked example the scores are [0.3, 0.2, 0.6], the threshold
\* is 0.3 and the test row gets the empty set.
C10_LacInclusionRule ==
    /\ ReturnedLacMeanSets =>
           \A i \in 1..Len(ret.sets) : \A j \in 1..Len(ret.sets[i]) :
               LET threshold == Get(self.quantiles_)[j]
                   row == ret.args[1][i].mean
               IN  /\ IsCorrectedQuantile(threshold, Get(self.conformity_scores_),
                                          ret.args[2][1][j])
                   /\ \A c \in Classes(row) :
                          c \in ret.sets[i][j] <=> row[c + 1] >= ONE - threshold - EPSILON
    /\ WorkedExample =>
           /\ Get(self.conformity_scores_)
                  = <<3 * (ONE \div 10), 2 * (ONE \div 10), 6 * (ONE \div 10)>>
           /\ Get(self.quantiles_) = <<3 * (ONE \div 10)>>
           /\ ret.sets = <<<<{}>>>>

\* predict has returned on the worked example with a prefit estimator.
C10_Witness == WorkedExample /\ self.cv = "prefit" /\ ret.args[4] = "mean"

\* The last call was predict with alpha on an instance of method "top_k".
PredictedTopK == ret.call = "predict" /\ ret.args[2] # <<>> /\ self.method = "top_k"

\* The largest rank a true label can have among the classes of the instance,
\* as fit counts it: that of the least probable class.
LastRank == Get(self.n_classes_) - 1

\* C11: with method "top_k", when the threshold of an alpha is the largest rank
\* (the true label of some calibration sample is ranked last and alpha selects
\* it), predict does not fail and the set of every test sample at that alpha
\* holds all the classes.
C11_TopKLastRankGivesAllClasses ==
    PredictedTopK =>
        /\ ret.err = "none"
        /\ \A j \in 1..Len(ret.args[2][1]) :
               Get(self.quantiles_)[j] = LastRank =>
                   \A i \in 1..Len(ret.sets) :
                       ret.sets[i][j] = 0..(Get(self.n_classes_) - 1)

\* predict with method "top_k" has returned with the largest rank as the
\* threshold of its first alpha, a calibration sample having that score, on a
\* test row whose least probable class has probability zero.
C11_Witness ==
    /\ PredictedTopK
    /\ ret.err = "none"
    /\ Get(self.quantiles_)[1] = LastRank
    /\ \E i \in 1..Len(Get(self.conformity_scores_)) :
           Get(self.conformity_scores_)[i] = LastRank
    /\ \E i \in 1..Len(ret.args[1]) : \E c \in 1..3 : ret.args[1][i].mean[c] = 0

\* The method a former method name stands for.
NewName(method) ==
    IF method = "score" THEN "lac" ELSE IF method = "cumulated_score" THEN "aps" ELSE method

\* The instance obj with its method under the new name.
Renamed(obj) == [obj EXCEPT !.method = NewName(obj.method)]

\* The step is a call on an instance whose method is a former name.
IsCallOnFormerName(call) == IsCall(call) /\ self.method \in {"score", "cumulated_score"}

\* C12: a call of fit or predict on an instance with method "score" or
\* "cumulated_score" does what the same call does on the same instance with
\* method "lac" or "aps": the same outcome, the same attributes (the conformity
\* scores among them), the same point predictions and prediction sets; the only
\* difference is the DeprecationWarning fit emits, and it does not stop fit.
C12_FormerNamesBehaveAsNewNames ==
    [][/\ IsCallOnFormerName("fit") =>
            /\ ret'.warnings = {"DeprecationWarning"}
            /\ \E c \in FitChoices(ret'.args[1]) :
                   \E r \in {fit(Renamed(self), rng, ret'.args[1], ret'.args[3], c.perm,
                                 ret'.args[2], c.junk)} :
                       /\ r.warnings = {}
                       /\ r.err = ret'.err
                       /\ r.rng = rng'
                       /\ r.obj = Renamed(self')
       /\ IsCallOnFormerName("predict") =>
            \E r \in {predict(Renamed(self), rng, ret'.args[1], ret'.args[2], ret'.args[3],
                               ret'.args[4])} :
                /\ ret'.warnings = {}
                /\ r.err = ret'.err
                /\ r.rng = rng'
                /\ r.y_pred = ret'.y_pred
                /\ r.sets = ret'.sets
                /\ r.obj = Renamed(self')]_vars

\* predict has returned sets built with tie-breaking in the crossval regime on
\* an instance with method "cumulated_score", after a fit that warned.
C12_Witness ==
    /\ ReturnedSets
    /\ ret.sets # <<>>
    /\ self.method = "cumulated_score"
    /\ self.cv = "kfold"
    /\ ret.args[3] = "randomized"
    /\ ret.args[4] = "crossval"
    /\ fitted_ok

OutsideUnitInterval(alpha_np) ==
    \E j \in 1..Len(alpha_np) : alpha_np[j] <= 0 \/ alpha_np[j] >= ONE

\* n is smaller than 1 / min(alpha_np).
FewerThanInverseAlpha(n, alpha_np) == \E j \in 1..Len(alpha_np) : n * alpha_np[j] < ONE

\* The step is a call of predict that raises, returns nothing and leaves the
\* instance, self.quantiles_ included, as it was.
RejectsAlpha ==
    /\ ret'.err # "none"
    /\ ret'.y_pred = <<>>
    /\ ret'.sets = <<>>
    /\ self' = self

\* C14 as stated: predict raises and returns no sets when an alpha lies outside
\* (0,1), when there are fewer conformity scores than 1/min(alpha), and for
\* method "raps" when the held-out split is smaller than 1/min(alpha); no
\* threshold is stored then.
C14_InvalidAlphaRejected ==
    [][(IsCall("predict") /\ ret'.args[2] # <<>>) =>
          LET alpha_np == ret'.args[2][1]
          IN  /\ OutsideUnitInterval(alpha_np) => RejectsAlpha
              /\ (/\ HasAttr(self.conformity_scores_)
                  /\ FewerThanInverseAlpha(Len(Get(self.conformity_scores_)), alpha_np))
                     => RejectsAlpha
              /\ (/\ HasAttr(self.conformity_scores_)
                  /\ self.method = "raps"
                  /\ FewerThanInverseAlpha(Len(Get(self.X_raps)), alpha_np))
                     => RejectsAlpha]_vars

\* C14 amended: the same, the size of the held-out split of method "raps" being
\* checked in the mean/prefit regime only.
C14_InvalidAlphaRejectedMeanRaps ==
    [][(IsCall("predict") /\ ret'.args[2] # <<>>) =>
          LET alpha_np == ret'.args[2][1]
          IN  /\ OutsideUnitInterval(alpha_np) => RejectsAlpha
              /\ (/\ HasAttr(self.conformity_scores_)
                  /\ FewerThanInverseAlpha(Len(Get(self.conformity_scores_)), alpha_np))
                     => RejectsAlpha
              /\ (/\ HasAttr(self.conformity_scores_)
                  /\ self.method = "raps"
                  /\ (self.cv = "prefit" \/ ret'.args[4] = "mean")
                  /\ FewerThanInverseAlpha(Len(Get(self.X_raps)), alpha_np))
                     => RejectsAlpha]_vars

\* predict with method "raps" in the mean/prefit regime has rejected an alpha
\* inside (0,1) that the conformity scores are enough for and the held-out
\* split is too small for, and no threshold is stored.
C14_Witness ==
    /\ ret.call = "predict"
    /\ ret.err = "InvalidAlpha"
    /\ self.method = "raps"
    /\ self.cv = "prefit"
    /\ ret.args[2] # <<>>
    /\ HasAttr(self.conformity_scores_)
    /\ ~OutsideUnitInterval(ret.args[2][1])
    /\ ~FewerThanInverseAlpha(Len(Get(self.conformity_scores_)), ret.args[2][1])
    /\ FewerThanInverseAlpha(Len(Get(self.X_raps)), ret.args[2][1])
    /\ ~HasAttr(self.quantiles_)

\* The labels of a sequence in increasing order, each once.
IsSortedDistinct(classes, y) ==
    /\ Range(classes) = Range(y)
    /\ \A i \in 1..Len(classes) - 1 : classes[i] < classes[i + 1]

\* C15: with cv "prefit", fit raises when a calibration label is not among the
\* classes_ of the prefit estimator, and otherwise classes_ and n_classes_ are
\* those of the estimator, in its order; with any other cv classes_ is the
\* sorted sequence of the distinct labels of y and n_classes_ its length.
C15_ClassesFromEstimatorOrLabels ==
    [][(IsCall("fit") /\ check_parameters(self) = "none") =>
        LET d == ret'.args[1]
            known == Range(d.y) \subseteq Range(d.classes)
        IN  IF self.cv = "prefit"
            THEN /\ ~known => ret'.err # "none"
                 /\ known => /\ self'.classes_ = Attr(d.classes)
                             /\ self'.n_classes_ = Attr(Len(d.classes))
            ELSE /\ HasAttr(self'.classes_)
                 /\ IsSortedDistinct(Get(self'.classes_), d.y)
                 /\ self'.n_classes_ = Attr(Len(Get(self'.classes_)))]_vars

\* A prefit estimator of three classes calibrated on two of them.
C15_Witness ==
    /\ ret.call = "fit" /\ ret.err = "none" /\ self.cv = "prefit"
    /\ ret.args[1] = DataBinary
    /\ Range(ret.args[1].y) # Range(ret.args[1].classes)
    /\ self.classes_ = Attr(<<0, 1, 2>>) /\ self.n_classes_ = Attr(3)

\* Every fit attribute exists and the estimator of the instance is fitted.
FittedInstance == check_is_fitted(self) /\ Calibration.fitted

\* The label the single estimator predicts for each sample of X: the first of
\* the classes of the estimator no class is more probable than.
PointPredictions(X) ==
    array([i \in 1..Len(X) |->
              Calibration.classes[1 + CHOOSE c \in Classes(X[i].mean) :
                  /\ MoreProbable(X[i].mean, c) = 0
                  /\ \A e \in 0..(c - 1) : MoreProbable(X[i].mean, e) > 0]])

\* C16: predict on a fitted instance with alpha None returns the point
\* predictions of the single estimator and nothing else, and leaves every field
\* of the instance (quantiles_ among them) and the random generator as they
\* were; with alpha given, when it returns, it returns the same point
\* predictions and one set of classes per test sample and alpha.
C16_AlphaNoneOnlyPointPredictions ==
    [][(/\ IsCall("predict")
        /\ FittedInstance
        /\ ret'.args[3] \in {"True", "False", "randomized"}) =>
        LET X == ret'.args[1]
            alpha == ret'.args[2]
        IN  IF alpha = <<>>
            THEN /\ ret'.err = "none"
                 /\ ret'.y_pred = PointPredictions(X)
                 /\ ret'.sets = <<>>
                 /\ self' = self
                 /\ rng' = rng
            ELSE ret'.err = "none" =>
                 /\ ret'.y_pred = PointPredictions(X)
                 /\ Len(ret'.sets) = Len(X)
                 /\ \A i \in 1..Len(X) :
                        /\ Len(ret'.sets[i]) = Len(alpha[1])
                        /\ \A j \in 1..Len(alpha[1]) :
                               ret'.sets[i][j] \subseteq 0..(Get(self.n_classes_) - 1)]_vars

\* predict with alpha None has returned the labels of two test samples on an
\* instance whose labels are not their positions, and quantiles_ does not exist.
C16_Witness ==
    /\ ret.call = "predict" /\ ret.err = "none"
    /\ ret.args[2] = <<>>
    /\ ret.args[1] = XTwo
    /\ ret.y_pred = <<10, 30>> /\ ret.sets = <<>>
    /\ ~HasAttr(self.quantiles_)

\* predict has returned sets built from cumulated probabilities against stored
\* thresholds, the last label being kept or dropped without a draw.
ReturnedCumulatedMeanSets ==
    /\ ReturnedSets
    /\ self.method \in {"naive", "aps", "raps"}
    /\ mean_regime(self, ret.args[4])
    /\ ret.args[3] \in {"True", "False"}

\* C17: in the mean/prefit regime, with method "naive", "aps" or "raps" and
\* include_last_label True or False, the set of every test sample at every alpha
\* is not empty and holds every class of the sample no class is more probable
\* than.
C17_SetHoldsMostProbableClass ==
    ReturnedCumulatedMeanSets =>
        \A i \in 1..Len(ret.sets) :
            \A j \in 1..Len(ret.sets[i]) :
                /\ ret.sets[i][j] # {}
                /\ \A c \in Classes(ret.args[1][i].mean) :
                       MoreProbable(ret.args[1][i].mean, c) = 0 => c \in ret.sets[i][j]

\* predict with include_last_label False has returned, for a level whose
\* threshold is below the largest probability of a test sample, the set that
\* holds the most probable class of the sample alone.
C17_Witness ==
    /\ ReturnedCumulatedMeanSets
    /\ self.method = "aps"
    /\ ret.args[3] = "False"
    /\ \E i \in 1..Len(ret.sets) :
           \E j \in 1..Len(ret.sets[i]) :
               /\ Get(self.quantiles_)[j] < ret.args[1][i].mean[argmax(ret.args[1][i].mean) + 1]
               /\ ret.sets[i][j] = {argmax(ret.args[1][i].mean)}

\* The generator of split has run: it is at a yield, or it ended.
SplitRan == pc[Generator] \in {"suspended", "exhausted", "raised"}

\* The number of entries split asks of resample.
TrainSize ==
    IF self.n_samples = <<>> THEN Len(local[Generator].X) ELSE self.n_samples[1]

\* The indices of the X handed to split.
IndicesOfX == 0..(Len(local[Generator].X) - 1)

\* The last pair split yielded: the train index has TrainSize entries, all
\* indices of X, and the test index lists once each the indices of X that the
\* train index does not hold.
PairIsTrainAndComplement ==
    LET train == local[Generator].train_index
        test == local[Generator].test_index
    IN  /\ Len(train) = TrainSize
        /\ \A i \in 1..Len(train) : train[i] \in IndicesOfX
        /\ {test[i] : i \in 1..Len(test)} = {x \in IndicesOfX : \A i \in 1..Len(train) : train[i] # x}
        /\ \A i \in 1..Len(test), j \in 1..Len(test) : test[i] = test[j] => i = j

\* What C18 says of a generator that has run.
SplitYieldsResamplings ==
    /\ pc[Generator] # "raised"
    /\ local[Generator].yielded <= self.n_resamplings
    /\ pc[Generator] = "suspended" => PairIsTrainAndComplement
    /\ pc[Generator] = "exhausted" => local[Generator].yielded = self.n_resamplings
    /\ ret.call = "get_n_splits" => ret.y_pred = self.n_resamplings

\* C18 as stated: split(X) yields exactly n_resamplings pairs, the number
\* get_n_splits returns; the train index of every pair has n_samples entries
\* (len(X) when n_samples is None), all indices of X, and the test index is the
\* set of the indices of X that are not in the train index.
C18_SplitYieldsResamplings == SplitRan => SplitYieldsResamplings

\* C18 for the parameters resample accepts: replace is True, or n_samples is
\* not larger than len(X).
C18_SplitYieldsResamplingsWhenDrawable ==
    (SplitRan /\ (self.replace \/ TrainSize <= Len(local[Generator].X))) =>
        SplitYieldsResamplings

\* split has yielded its two pairs and ended; the last train index draws three
\* times from two samples, one of them only, and the other is the test index.
C18_Witness ==
    /\ pc[Generator] = "exhausted"
    /\ self.n_resamplings = 2 /\ local[Generator].yielded = 2
    /\ self.replace /\ self.n_samples = <<3>>
    /\ Len(local[Generator].X) = 2
    /\ local[Generator].train_index = <<1, 1, 1>>
    /\ local[Generator].test_index = <<0>>

\* C19: SplitCP.predict with alpha None asks only for a fitted predictor and
\* returns one array, the point predictions predict_best gives; with alpha not
\* None it asks also for a fitted calibrator and returns the pair of the same
\* point predictions and the bounds of predict_bounds.
C19_PredictReturnsBestPredictions ==
    [][IsCall("predict") =>
        LET X == ret'.args[1]
            scores == predict_score(self, X)
            fitted == HasAttr(self.predictor_)
            calibrated == HasAttr(self.calibrator_)
        IN  /\ ~fitted => ret'.err # "none"
            /\ (fitted /\ self.alpha = <<>>) =>
                   /\ ret'.err = "none"
                   /\ ret'.sets = <<>>
                   /\ ret'.y_pred[1].shape = <<Len(X)>>
                   /\ ret'.y_pred = <<predict_best(self, scores)>>
            /\ (fitted /\ self.alpha # <<>> /\ ~calibrated) => ret'.err # "none"
            /\ (fitted /\ self.alpha # <<>> /\ calibrated) =>
                   /\ ret'.err = "none"
                   /\ ret'.y_pred[1].shape = <<Len(X)>>
                   /\ ret'.y_pred = <<predict_best(self, scores)>>
                   /\ ret'.sets = <<predict_bounds(self, X, scores)>>]_vars

\* predict has returned sets built from thresholds drawn from the calibration
\* scores: a method other than "naive" in the mean/prefit regime.
ReturnedQuantileSets ==
    /\ ReturnedSets
    /\ self.method \in {"lac", "aps", "raps", "top_k"}
    /\ mean_regime(self, ret.args[4])

\* The scores the threshold of the j-th alpha is drawn from: the conformity
\* scores of fit, for "raps" the scores predict has regularised for that alpha.
ScoresOfLevel(j) ==
    IF self.method = "raps"
    THEN [i \in 1..Len(Get(self.conformity_scores_regularized)) |->
             Get(self.conformity_scores_regularized)[i][j]]
    ELSE Get(self.conformity_scores_)

\* The threshold of every level alpha is the r-th smallest of the n conformity
\* scores of fit, r = ceil((n+1)(1-alpha)) clipped to n: one of those scores,
\* with fewer than r scores below it and at least r scores not above it.
ThresholdsRankedInFitScores ==
    ReturnedQuantileSets =>
        \A j \in 1..Len(ret.args[2][1]) :
            IsCorrectedQuantile(Get(self.quantiles_)[j], Get(self.conformity_scores_),
                                ret.args[2][1][j])

\* The same, the scores of "raps" being the regularised ones.
ThresholdsRankedInScoresOfLevel ==
    ReturnedQuantileSets =>
        \A j \in 1..Len(ret.args[2][1]) :
            IsCorrectedQuantile(Get(self.quantiles_)[j], ScoresOfLevel(j), ret.args[2][1][j])

\* A call of predict that repeats the call before it, both having returned,
\* whatever the generator has drawn in between, stores the same thresholds.
ThresholdsRepeat ==
    (/\ IsCall("predict")
     /\ ret.call = "predict" /\ ret.err = "none" /\ ret'.err = "none"
     /\ ret'.args = ret.args /\ ret.args[2] # <<>>
     /\ mean_regime(self, ret.args[4]) /\ self.method # "naive") =>
        self'.quantiles_ = self.quantiles_

\* C20 as stated: in the mean/prefit regime, for every method but "naive", the
\* threshold of level alpha is the r-th smallest conformity score of fit, r =
\* ceil((n+1)(1-alpha)) clipped to n, n the number of conformity scores; it is
\* one of the stored scores and no random draw enters it.
C20_ThresholdIsRankedScore == [][ThresholdsRankedInFitScores' /\ ThresholdsRepeat]_vars

\* C20 with, for method "raps", the scores predict has regularised for the
\* level (conformity_scores_regularized) in the place of the scores of fit.
C20_ThresholdIsRankedRegularizedScore ==
    [][ThresholdsRankedInScoresOfLevel' /\ ThresholdsRepeat]_vars

\* predict with method "raps" has returned with a threshold that is a
\* regularised score and not a conformity score of fit.
C20_Witness ==
    /\ ReturnedQuantileSets
    /\ self.method = "raps"
    /\ \E j \in 1..Len(ret.args[2][1]) :
           /\ IsCorrectedQuantile(Get(self.quantiles_)[j], ScoresOfLevel(j), ret.args[2][1][j])
           /\ \A i \in 1..Len(Get(self.conformity_scores_)) :
                  Get(self.conformity_scores_)[i] # Get(self.quantiles_)[j]

\* The inputs of the last assembly and what it returned for its j-th threshold.
AssembledRow == ret.args[1]

AssembledThresholds == ret.args[2]

AssembledIncludeLastLabel == ret.args[3]

\* The 1-indexed rank of class c among the classes of row in the descending
\* order of probability the code sorts them in.
RankOf(row, c) == CHOOSE r \in 1..Len(row) : fliplr(argsort(row))[r] = c

\* The cumulative (for "raps": regularised) score of class c for the j-th
\* threshold.
CumulativeScore(j, c) == ret.last[j].y_pred_proba_cumsum[c + 1]

\* The set of the j-th threshold before the tie-breaking.
SetBeforeTieBreaking(j) ==
    IF AssembledIncludeLastLabel = "randomized" THEN ret.before[j] ELSE ret.sets[j]

\* The first class, in descending order of probability, whose cumulative score
\* reaches the j-th threshold is the last included one: the set holds it and
\* the classes ranked before it, and no other.
FirstReachingIsLast(j) ==
    LET row == AssembledRow
        reached == {c \in Classes(row) : CumulativeScore(j, c) >= AssembledThresholds[j]}
    IN  reached # {} =>
            LET first == CHOOSE c \in reached :
                             \A d \in reached : RankOf(row, c) <= RankOf(row, d)
            IN  SetBeforeTieBreaking(j) =
                    {c \in Classes(row) : RankOf(row, c) <= RankOf(row, first)}

\* The set holds the classes whose cumulative score is strictly below the j-th
\* threshold and the most probable class, and no other.
StrictlyBelowAndTop(j) ==
    LET row == AssembledRow
    IN  ret.sets[j] =
            {c \in Classes(row) : CumulativeScore(j, c) < AssembledThresholds[j]}
                \cup {c \in Classes(row) : RankOf(row, c) = 1}

AsProbableAs(l) ==
    {c \in Classes(AssembledRow) :
        AssembledRow[c + 1] > 0 /\ AssembledRow[c + 1] >= AssembledRow[l + 1]}

\* The last included label of the j-th threshold when the last label is
\* included: the first class, in descending order of probability, whose
\* cumulative score reaches the threshold (<<>> when none does).
FirstReaching(j) ==
    LET row == AssembledRow
        reached == {c \in Classes(row) : CumulativeScore(j, c) >= AssembledThresholds[j]}
    IN  IF reached = {} THEN <<>>
        ELSE <<CHOOSE c \in reached : \A d \in reached : RankOf(row, c) <= RankOf(row, d)>>

\* The last included label of the j-th threshold when the last label is not
\* included: the last class, in descending order of probability, whose
\* cumulative score is at most the threshold, the most probable class when
\* there is none.
LastNotOver(j) ==
    LET row == AssembledRow
        below == {c \in Classes(row) : CumulativeScore(j, c) <= AssembledThresholds[j]}
    IN  IF below = {} THEN CHOOSE c \in Classes(row) : RankOf(row, c) = 1
        ELSE CHOOSE c \in below : \A d \in below : RankOf(row, c) >= RankOf(row, d)

AssembledRandomized ==
    /\ ret.call = "assemble" /\ ret.err = "none"
    /\ AssembledIncludeLastLabel = "randomized"

\* The last included label of the j-th threshold.
LastIncluded(j) == ret.last[j].y_pred_index_last

\* V of the j-th threshold as the fraction <<numerator, adjustment>>: the
\* cumulative score at the last included label less the threshold, over the
\* last included probability, for "raps" less lambda_star * max(0, L - k_star)
\* plus lambda_star when L > k_star, L being the size of the set.
TieBreakingV(j) ==
    LET L == Cardinality(ret.before[j])
        lambda_star == ret.args[4]
        k_star == ret.args[5]
    IN  <<CumulativeScore(j, LastIncluded(j)) - AssembledThresholds[j],
          IF self.method = "raps"
          THEN ret.last[j].y_pred_proba_last
               - lambda_star * (IF L > k_star THEN L - k_star ELSE 0)
               + (IF L > k_star THEN lambda_star ELSE 0)
          ELSE ret.last[j].y_pred_proba_last>>

\* V <= U + epsilon for the U of the sample, the adjustment not being zero.
VAtMostU(j) ==
    LET num == TieBreakingV(j)[1]
        den == TieBreakingV(j)[2]
        u == ret.args[6]
    IN  IF den > 0 THEN num * ONE <= u * den + EPSILON
        ELSE num * ONE >= u * den - EPSILON

\* The tie-breaking changes the membership of the last included label only.
OnlyLastLabelChanges(j) ==
    ret.sets[j] \ {LastIncluded(j)} = ret.before[j] \ {LastIncluded(j)}

\* C22 as stated: under include_last_label "randomized", with one U per sample
\* for all its alpha, the last included label is dropped from the set iff
\* V <= U + epsilon and stays iff V > U + epsilon; no other label changes.
C22_DropsLastLabelWhenVAtMostU ==
    AssembledRandomized =>
        \A j \in 1..Len(AssembledThresholds) :
            TieBreakingV(j)[2] # 0 =>
                /\ LastIncluded(j) \notin ret.sets[j] <=> VAtMostU(j)
                /\ OnlyLastLabelChanges(j)

\* C22 with the comparison as the code makes it: the last included label is in
\* the set iff V <= U + epsilon and is not in it iff V > U + epsilon.
C22_KeepsLastLabelWhenVAtMostU ==
    AssembledRandomized =>
        \A j \in 1..Len(AssembledThresholds) :
            TieBreakingV(j)[2] # 0 =>
                /\ LastIncluded(j) \in ret.sets[j] <=> VAtMostU(j)
                /\ OnlyLastLabelChanges(j)

\* For the row [0.5, 0.3, 0.2] and the thresholds 0.7 and 1, with U = 0.4: the
\* second class is the last included at 0.7, V = 1/3 <= U and it stays; the
\* third is the last included at 1, V = 0 and it stays.  With U = 0 the second
\* class would have been dropped at 0.7.
C22_Witness ==
    /\ AssembledRandomized
    /\ self.method = "aps"
    /\ AssembledRow = Row(<<5, 3, 2>>)
    /\ AssembledThresholds = <<7 * (ONE \div 10), ONE>>
    /\ ret.args[6] = 2 * (ONE \div 5)
    /\ LastIncluded(1) = 1 /\ VAtMostU(1)
    /\ ret.sets = <<{0, 1}, {0, 1, 2}>>

\* The step is a call of predict in the crossval regime that returns sets, on
\* an instance of the given method.
CrossvalPredict(method) ==
    /\ IsCall("predict") /\ ret'.err = "none" /\ ret'.args[2] # <<>>
    /\ self.method = method
    /\ ~mean_regime(self, ret'.args[4])

\* The rows the out-of-fold models predict for the i-th test sample of the
\* call, one per training conformity score.
FoldRows(i) == predict_crossval(ret'.args[1][i], Len(Get(self.conformity_scores_)))

\* "lac": the number of training conformity scores that are at least the
\* candidate score 1 - probability of class c for the i-th test sample.
LacCount(i, c) ==
    Cardinality({j \in 1..Len(Get(self.conformity_scores_)) :
        ONE - FoldRows(i)[j][c + 1] <= Get(self.conformity_scores_)[j] + EPSILON})

\* "aps": the number of training conformity scores under which class c is at
\* most as probable as the last label included for the i-th test sample (the
\* membership of that label being drawn when include_last_label is "randomized").
ApsCount(i, c) ==
    LET scores == Get(self.conformity_scores_)
        include_last_label == ret'.args[3]
        u == uniform(self.random_state, rng, Len(ret'.args[1])).us[i]
    IN  Cardinality({j \in 1..Len(scores) :
            LET last == get_last_included_proba("aps", FoldRows(i)[j], scores[j],
                                                include_last_label, 0, 0)
                included == {c2 \in Classes(FoldRows(i)[j]) :
                                FoldRows(i)[j][c2 + 1] <= last.y_pred_proba_last + EPSILON}
            IN  c \in IF include_last_label = "randomized"
                       THEN add_random_tie_breaking("aps", included, last, scores[j], 0, 0, u)
                       ELSE included})

\* n + 1, n being the number of training conformity scores.
CrossvalBound == (Len(Get(self.conformity_scores_)) + 1)

\* C23 as stated: in the crossval regime, for "lac" and for "aps" alike, a
\* class is in the set of a test sample at level alpha iff the number of
\* training conformity scores that satisfy the inequality of the method
\* exceeds (n+1)(1-alpha), n being the number of training conformity scores.
C23_CountExceedsQuantileRank ==
    [][/\ CrossvalPredict("lac") =>
            \A i \in 1..Len(ret'.args[1]) : \A a \in 1..Len(ret'.args[2][1]) :
                ret'.sets[i][a] =
                    {c \in Classes(FoldRows(i)[1]) :
                        LacCount(i, c) * ONE > CrossvalBound * (ONE - ret'.args[2][1][a])}
       /\ CrossvalPredict("aps") =>
            \A i \in 1..Len(ret'.args[1]) : \A a \in 1..Len(ret'.args[2][1]) :
                ret'.sets[i][a] =
                    {c \in Classes(FoldRows(i)[1]) :
                        ApsCount(i, c) * ONE > CrossvalBound * (ONE - ret'.args[2][1][a])}]_vars

\* C23 with the count and the bound of each method: "lac" includes a class iff
\* the number of training scores that are at least its candidate score is at
\* least alpha (n - 1); "aps" includes it iff the number of training scores
\* under which it is at most as probable as the last included label is at most
\* (n + 1)(1 - alpha).
C23_CountAgainstMethodBound ==
    [][/\ CrossvalPredict("lac") =>
            \A i \in 1..Len(ret'.args[1]) : \A a \in 1..Len(ret'.args[2][1]) :
                ret'.sets[i][a] =
                    {c \in Classes(FoldRows(i)[1]) :
                        LacCount(i, c) * ONE >=
                            ret'.args[2][1][a] * (Len(Get(self.conformity_scores_)) - 1)
                                - EPSILON}
       /\ CrossvalPredict("aps") =>
            \A i \in 1..Len(ret'.args[1]) : \A a \in 1..Len(ret'.args[2][1]) :
                ret'.sets[i][a] =
                    {c \in Classes(FoldRows(i)[1]) :
                        ApsCount(i, c) * ONE <=
                            CrossvalBound * (ONE - ret'.args[2][1][a]) + EPSILON}]_vars

\* predict has returned sets of "lac" in the crossval regime on six training
\* scores for two alpha, and the two sets of a sample differ.
C23_Witness ==
    /\ ReturnedSets
    /\ self.method = "lac" /\ ~mean_regime(self, ret.args[4])
    /\ Len(Get(self.conformity_scores_)) = 6
    /\ Len(ret.args[2][1]) = 2
    /\ \E i \in 1..Len(ret.sets) : ret.sets[i][1] # ret.sets[i][2] /\ ret.sets[i][2] # {}

\* _find_lambda_star has returned.
LambdaSearched == ret.call = "find_lambda_star"

\* The position of a candidate among the candidates, 0 when it is none of them.
CandidateOf(lambda_) ==
    IF \E c \in 1..Len(lambda_candidates) : lambda_candidates[c] = lambda_
    THEN CHOOSE c \in 1..Len(lambda_candidates) : lambda_candidates[c] = lambda_
    ELSE 0

\* C24: for each alpha, the lambda* the RAPS search returns is one of the five
\* candidates (never 0), its mean held-out set size is at most every other
\* candidate's plus epsilon, and among candidates of equal size the smallest
\* lambda is returned.
C24_LambdaStarIsFirstSmallest ==
    LambdaSearched =>
        \A j \in 1..Len(ret.lambda_star) :
            LET best == CandidateOf(ret.lambda_star[j])
            IN  /\ best # 0
                /\ ret.lambda_star[j] # 0
                /\ \A c \in 1..Len(lambda_candidates) :
                      /\ ret.sizes[best][j] <= ret.sizes[c][j] + EPSILON
                      /\ ret.sizes[c][j] = ret.sizes[best][j]
                            => ret.lambda_star[j] <= lambda_candidates[c]

\* The search has returned, for two alpha, a lambda* that is neither the first
\* nor the last candidate, while a later candidate has the same size and an
\* earlier one a larger size.
C24_Witness ==
    /\ LambdaSearched
    /\ Len(ret.lambda_star) = 2
    /\ \E j \in 1..2 :
          LET best == CandidateOf(ret.lambda_star[j])
          IN  /\ best > 1 /\ best < Len(lambda_candidates)
              /\ ret.sizes[best + 1][j] = ret.sizes[best][j]
              /\ ret.sizes[1][j] > ret.sizes[best][j]

\* fit with method "raps" has returned; ret.passed is what it handed on.
RapsFitted == ret.call = "fit" /\ ret.err = "none" /\ self.method = "raps"

\* The elements of a sequence.
Elements(s) == {s[i] : i \in 1..Len(s)}

\* C25: in fit with method "raps" the held-out split is drawn once; the indices
\* of the held-out samples and the indices of the samples handed on for model
\* fitting and conformity scores are disjoint and together are all input
\* samples; the sample weights and groups handed on are those of the samples
\* handed on; and conformity_scores_ holds one score per sample handed on, none
\* of a held-out sample.
C25_HeldOutSplitIsAPartition ==
    RapsFitted =>
        LET held == Get(self.X_raps)
            index == ret.passed.index
            d == ret.args[1]
            n == Len(d.y)
        IN  /\ Elements(held) \cap Elements(index) = {}
            /\ Elements(held) \cup Elements(index) = 1..n
            /\ Len(held) + Len(index) = n
            /\ Len(held) = n_test(n, ret.args[3])
            /\ Get(self.y_raps_no_enc) = array([i \in 1..Len(held) |-> d.y[held[i]]])
            /\ ret.args[4] # <<>> =>
                  ret.passed.sample_weight = array([i \in 1..Len(index) |-> ret.args[4][index[i]]])
            /\ ret.args[4] = <<>> => ret.passed.sample_weight = <<>>
            /\ ret.args[5] # <<>> =>
                  ret.passed.groups = array([i \in 1..Len(index) |-> ret.args[5][index[i]]])
            /\ ret.args[5] = <<>> => ret.passed.groups = <<>>
            /\ Len(Get(self.conformity_scores_)) = Len(index)
            /\ Get(self.estimator_).y_pred_proba = array([i \in 1..Len(index) |-> d.proba[index[i]]])
            /\ \A h \in Elements(held) :
                  d.proba[h] \notin Elements(Get(self.estimator_).y_pred_proba)
            /\ Get(self.y_pred_proba_raps) = array([i \in 1..Len(held) |-> d.proba[held[i]]])
            /\ rng = IF self.random_state.kind = "int" THEN 0 ELSE n + Len(index)

\* fit with method "raps" has returned with sample weights and groups given,
\* two of four samples held out, and the held-out samples not the first two.
C25_Witness ==
    /\ RapsFitted
    /\ ret.args[4] # <<>> /\ ret.args[5] # <<>>
    /\ Get(self.X_raps) = <<3, 1>>
    /\ Elements(ret.passed.index) = {2, 4}

\* The assembler has returned sets with include_last_label True or False.
AssembledNotRandomized ==
    /\ ret.call = "assemble" /\ ret.err = "none"
    /\ AssembledIncludeLastLabel \in {"True", "False"}

\* The classes of the assembled row whose probability is 0.
ZeroClasses == {c \in Classes(AssembledRow) : AssembledRow[c + 1] = 0}

\* C26: in the mean/prefit regime for naive, aps and raps with
\* include_last_label True or False, no class whose test probability is 0 is in
\* the prediction set, whatever the threshold and the position of the
\* zero-probability classes.
C26_NoZeroProbabilityClass ==
    AssembledNotRandomized =>
        \A j \in 1..Len(ret.sets) : ret.sets[j] \cap ZeroClasses = {}

\* The instance without what calls of predict have stored on it.
WithoutPredictFields(obj) ==
    [obj EXCEPT !.quantiles_ = NoAttr, !.conformity_scores_regularized = NoAttr]

\* C27: a call of predict with include_last_label True or False raises and
\* returns what the same call does on the instance as fit left it, whatever
\* calls of predict, with whatever alpha, were made since fit.
C27_PredictIgnoresEarlierCalls ==
    [][(IsCall("predict") /\ ret'.args[3] \in {"True", "False"}) =>
          \A fresh \in {predict(WithoutPredictFields(self), rng, ret'.args[1], ret'.args[2],
                                ret'.args[3], ret'.args[4])} :
              /\ ret'.err = fresh.err
              /\ ret'.y_pred = fresh.y_pred
              /\ ret'.sets = fresh.sets]_vars

\* predict has returned sets for alpha 0.5 on an instance of "raps" that holds
\* the regularized scores and a threshold of another alpha, and the threshold
\* it leaves is another one.
C27_Witness ==
    /\ ReturnedSets
    /\ calls = 3
    /\ self.method = "raps"
    /\ ret.args[2] = <<<<ONE \div 2>>>>
    /\ HasAttr(self.conformity_scores_regularized)
    /\ ret.sets[1][1] # {}

\* The instance as fit with method "naive" leaves it on other calibration
\* labels and probabilities: the calibration samples in reverse order with the
\* first class as label, and junk in the scores fit leaves uninitialised.
WithOtherCalibration(obj, junk) ==
    LET estimator == Get(obj.estimator_)
        n == Len(estimator.y_pred_proba)
    IN  [obj EXCEPT
            !.conformity_scores_ =
                Attr(array([i \in 1..Len(Get(obj.conformity_scores_)) |->
                         array([c \in 1..Len(Get(obj.conformity_scores_)[i]) |-> junk])])),
            !.estimator_ =
                Attr([estimator EXCEPT
                         !.y_pred_proba = array([i \in 1..n |-> estimator.y_pred_proba[n + 1 - i]]),
                         !.y_enc = array([i \in 1..n |-> 0])])]

\* C28: for method "naive" the threshold of predict is 1 - alpha for every
\* alpha, and the sets depend only on the test probabilities, alpha and
\* include_last_label: the call returns the same on an instance fitted with
\* other calibration content.
C28_NaiveIgnoresCalibration ==
    [][(IsCall("predict") /\ self.method = "naive" /\ HasAttr(self.conformity_scores_)) =>
          /\ (ret'.err = "none" /\ ret'.args[2] # <<>>) =>
                Get(self'.quantiles_) =
                    array([j \in 1..Len(ret'.args[2][1]) |-> ONE - ret'.args[2][1][j]])
          /\ \A junk \in Junk :
                \A other \in {predict(WithOtherCalibration(self, junk), rng, ret'.args[1], ret'.args[2],
                                      ret'.args[3], ret'.args[4])} :
                    /\ ret'.err = other.err
                    /\ ret'.sets = other.sets]_vars

\* predict has returned sets of "naive" for two alpha on an instance whose
\* uninitialised scores are not zero, and the sets of the two alpha differ.
C28_Witness ==
    /\ ReturnedSets
    /\ self.method = "naive"
    /\ Get(self.conformity_scores_)[1][1] # 0
    /\ Len(ret.args[2][1]) = 2
    /\ ret.sets[1][1] # ret.sets[1][2]

\* SplitCP.fit has returned on an instance whose cv is not "prefit".
SplitCPFitSplit == ret.call = "fit" /\ self.cv.kind # "prefit" /\ "fit_calibrator" \in DOMAIN ret

\* C29: in SplitCP.fit with cv other than "prefit", the calibration indices of
\* fit_calibrator are disjoint from the training indices of fit_predictor, and
\* both steps use the same (train, calibration) partition, for every splitter
\* configuration, an unseeded ShuffleSplit included.
C29_CalibrationDisjointFromTraining ==
    SplitCPFitSplit =>
        /\ Elements(ret.fit_calibrator.calib_index)
               \cap Elements(ret.fit_predictor.train_index) = {}
        /\ Elements(ret.fit_calibrator.train_index) = Elements(ret.fit_predictor.train_index)

\* The generator of BlockBootstrap.split is suspended at a yield.
BlockYielded ==
    /\ "overlapping" \in DOMAIN self
    /\ pc[Generator] = "suspended"

\* C30: for every split yielded by BlockBootstrap.split(X), with overlapping
\* True or False and any valid length, every index 0..len(X)-1 occurs in the
\* train index or in the test index, and never in both.
C30_EveryIndexInTrainOrTest ==
    BlockYielded =>
        LET frame == local[Generator]
        IN  /\ Elements(frame.train_index) \cup Elements(frame.test_index)
                   = Elements(arange(Len(frame.X)))
            /\ Elements(frame.train_index) \cap Elements(frame.test_index) = {}

====
